---- MODULE Spec2Model ----
(***************************************************************************)
(* Limit order book matching engine (lob::BookCore over two price          *)
(* ladders).  The node storage is a heap of OrderNode records linked by    *)
(* prev/next handles, the ladders hold LevelFIFO buckets with head/tail    *)
(* handles and a cached total_qty, and the id index maps OrderId to        *)
(* (side, px, node handle).  Every public operation of BookCore is one     *)
(* atomic action (the engine is single-threaded and synchronous).          *)
(***************************************************************************)
EXTENDS Integers, Sequences, FiniteSets, TLC

(* ------------------------------ bounds -------------------------------- *)
\* live OrderNodes the heap can hold (handles 1..MaxOrders)
MaxOrders == 2
\* largest order quantity a caller submits
MaxQty == 2
\* the contiguous band [MinTick, MaxTick]; all submitted prices lie in it
MinTick == 1
MaxTick == 3
\* a replayed event list holds at most MaxEvents events
MaxEvents == 3
\* event timestamps lie in -MaxBack..MaxTs (MaxBack before the epoch)
MaxBack == 1
MaxTs == 2
\* Options::cadence_ns lies in 0..MaxCadence
MaxCadence == 2
\* quote rows the writer's file can take (more than any run over
\* -MaxBack..MaxTs writes with a positive cadence)
MaxRows == 5
\* the feed reports level sizes in -1..MaxSize
MaxSize == 3

(* ----------------------------- constants ------------------------------ *)
\* std::numeric_limits<Tick>::min() / max(): the empty-side sentinels.
\* Tick is a 64-bit signed integer; the model uses the extreme values of the
\* checker's integers, which every band price lies strictly between.
MINP == -2147483647
MAXP == 2147483647

\* nullptr
NULL == 0

Bid == "Bid"
Ask == "Ask"
Sides == {Bid, Ask}

\* the STP bit of the flags word; a flags word is modelled as the set of its bits
STP == "STP"
FlagWords == {{}, {STP}}

Ticks == MinTick..MaxTick
OrderIds == {101, 102}
UserIds == {9001, 9002}
Timestamps == {1000}
\* quantities a caller may pass
Quantities == 1..MaxQty

(* ------------------------------ helpers ------------------------------- *)
Min(a, b) == IF a <= b THEN a ELSE b

SetMin(S) == CHOOSE x \in S : \A y \in S : x <= y

SetMax(S) == CHOOSE x \in S : \A y \in S : x >= y

\* g with key k removed (unordered_map::erase)
MapErase(g, k) == [x \in (DOMAIN g) \ {k} |-> g[x]]

\* g with key k set to v (operator[] assignment / new)
MapPut(g, k, v) == [x \in (DOMAIN g) \cup {k} |-> IF x = k THEN v ELSE g[x]]

(* ------------------------------ state --------------------------------- *)
VARIABLES
  bids,      \* IPriceLevels& bids_ : [impl, levels, best_bid, best_ask]
  asks,      \* IPriceLevels& asks_
  node,      \* the heap: handle -> OrderNode, for every node not yet deleted
  id_index,  \* std::unordered_map<OrderId, IdEntry>
  profile,   \* which callers feed this book (fixed at construction)
  replayer   \* the Replayer driving this book and the call of run on it

vars == <<bids, asks, node, id_index, profile, replayer>>

\* struct LevelFIFO { head{nullptr}, tail{nullptr}, total_qty{0} }
EmptyLevel == [head |-> NULL, tail |-> NULL, total_qty |-> 0]

(* ------------------------- PriceLevelsContig -------------------------- *)
\* size_t arithmetic is modulo 2^64; the model keeps a modulus that, like
\* 2^64, is far larger than the band and any distance of a price from it
SIZE_MOD == 65536

\* idx(px) = static_cast<size_t>(px - band_.min_tick)
idx(px) == (px - MinTick) % SIZE_MOD

\* levels_(band.max_tick - band.min_tick + 1), best_bid_(min), best_ask_(max)
PriceLevelsContig ==
  [impl |-> "contig",
   levels |-> [i \in 0..(MaxTick - MinTick) |-> EmptyLevel],
   best_bid |-> MINP,
   best_ask |-> MAXP]

(* ------------------------- PriceLevelsSparse -------------------------- *)
\* std::map<Tick, LevelFIFO> map_ starts with no key
PriceLevelsSparse ==
  [impl |-> "sparse",
   levels |-> [i \in {} |-> EmptyLevel],
   best_bid |-> MINP,
   best_ask |-> MAXP]

(* ---------------------------- IPriceLevels ---------------------------- *)
\* the key under which the bucket of price px is stored
Key(lad, px) == IF lad.impl = "contig" THEN idx(px) ELSE px

\* the price stored under key k
PriceOf(lad, k) == IF lad.impl = "contig" THEN MinTick + k ELSE k

\* get_level(px): the ladder after the access (the sparse map creates the
\* bucket when it is missing, the contiguous array is left as it is)
Touch(lad, px) ==
  IF lad.impl = "sparse" /\ px \notin DOMAIN lad.levels
    THEN [lad EXCEPT !.levels = MapPut(lad.levels, px, EmptyLevel)]
    ELSE lad

\* get_level(px): the bucket it returns
get_level(lad, px) == Touch(lad, px).levels[Key(lad, px)]

\* writing through the reference get_level(px) returned
put_level(lad, px, L) ==
  [lad EXCEPT !.levels = MapPut(lad.levels, Key(lad, px), L)]

\* a has_level that answers whether the bucket exists
has_level_KeyOnly(lad, px) ==
  IF lad.impl = "contig"
    THEN idx(px) \in DOMAIN lad.levels
    ELSE px \in DOMAIN lad.levels

\* bool has_level(Tick px) const: the bucket exists and its head is not null
has_level(lad, px) ==

  IF lad.impl = "contig"
    THEN lad.levels[idx(px)].head # NULL
    ELSE px \in DOMAIN lad.levels /\ lad.levels[px].head # NULL

best_bid(lad) == lad.best_bid
best_ask(lad) == lad.best_ask
set_best_bid(lad, px) == [lad EXCEPT !.best_bid = px]
set_best_ask(lad, px) == [lad EXCEPT !.best_ask = px]

\* PriceLevelsContig::next_ask_after: for (i = start; i < levels_.size(); ++i)
RECURSIVE ContigScanUp(_, _)
ContigScanUp(levels, i) ==
  IF ~(i < Cardinality(DOMAIN levels)) THEN MAXP
  ELSE IF levels[i].head # NULL THEN MinTick + i
  ELSE ContigScanUp(levels, i + 1)

\* PriceLevelsContig::next_bid_before: for (k = i; k-- > 0; ), the body at k
RECURSIVE ContigScanDown(_, _)
ContigScanDown(levels, k) ==
  IF levels[k].head # NULL THEN MinTick + k
  ELSE IF k = 0 THEN MINP
  ELSE ContigScanDown(levels, k - 1)

\* an upward walk of the map that returns the first bucket, empty or not
SparseScanUp_First(levels, keys) ==
  IF keys = {} THEN MAXP ELSE SetMin(keys)

\* PriceLevelsSparse::next_ask_after: from map_.upper_bound(px) to map_.end();

\* keys are the keys of the map the iterator has not passed yet
RECURSIVE SparseScanUp(_, _)
SparseScanUp(levels, keys) ==
  IF keys = {} THEN MAXP
  ELSE LET it == SetMin(keys)
       IN IF levels[it].head # NULL THEN it
          ELSE SparseScanUp(levels, keys \ {it})

\* PriceLevelsSparse::next_bid_before: from map_.lower_bound(px) leftwards
\* until map_.begin(); keys are the keys left of the iterator
RECURSIVE SparseScanDown(_, _)
SparseScanDown(levels, keys) ==
  IF keys = {} THEN MINP
  ELSE LET it == SetMax(keys)
       IN IF levels[it].head # NULL THEN it
          ELSE SparseScanDown(levels, keys \ {it})

\* an upward scan that starts at the bucket of px itself
next_ask_after_Inclusive(lad, px) ==
  IF lad.impl = "contig"
    THEN ContigScanUp(lad.levels, idx(px))
    ELSE SparseScanUp(lad.levels, {k \in DOMAIN lad.levels : k >= px})

\* first non-empty price strictly greater than px, else max Tick
next_ask_after(lad, px) ==
  IF lad.impl = "contig"
    THEN ContigScanUp(lad.levels, (idx(px) + 1) % SIZE_MOD)
    ELSE SparseScanUp(lad.levels, {k \in DOMAIN lad.levels : k > px})

\* first non-empty price strictly less than px, else min Tick
next_bid_before(lad, px) ==
  IF lad.impl = "contig"
    THEN IF idx(px) = 0 THEN MINP ELSE ContigScanDown(lad.levels, idx(px) - 1)
    ELSE SparseScanDown(lad.levels, {k \in DOMAIN lad.levels : k < px})

(* ------------------------------ BookCore ------------------------------ *)
\* a helper that links node n in front of the head of bucket L
enqueue_Front(nd, L, n) ==
  LET nd1 == [nd EXCEPT ![n].prev = NULL, ![n].next = L.head]
      nd2 == IF L.head # NULL THEN [nd1 EXCEPT ![L.head].prev = n] ELSE nd1
      L1  == IF L.head # NULL THEN L ELSE [L EXCEPT !.tail = n]
  IN [node |-> nd2,
      L |-> [L1 EXCEPT !.head = n, !.total_qty = L.total_qty + nd[n].qty]]

\* intrusive FIFO helper: link node n at the tail of bucket L.
\* Gives the heap and the bucket after the call.
enqueue(nd, L, n) ==
  LET nd1 == [nd EXCEPT ![n].next = NULL, ![n].prev = L.tail]
      nd2 == IF L.tail # NULL THEN [nd1 EXCEPT ![L.tail].next = n] ELSE nd1
      L1  == IF L.tail # NULL THEN L ELSE [L EXCEPT !.head = n]
  IN [node |-> nd2,
      L |-> [L1 EXCEPT !.tail = n, !.total_qty = L.total_qty + nd[n].qty]]

\* intrusive FIFO helper: unlink node n from bucket L.
erase(nd, L, n) ==
  LET p   == nd[n].prev
      x   == nd[n].next
      nd1 == IF p # NULL THEN [nd EXCEPT ![p].next = x] ELSE nd
      L1  == IF p # NULL THEN L ELSE [L EXCEPT !.head = x]
      nd2 == IF x # NULL THEN [nd1 EXCEPT ![x].prev = p] ELSE nd1
      L2  == IF x # NULL THEN L1 ELSE [L1 EXCEPT !.tail = p]
  IN [node |-> [nd2 EXCEPT ![n].prev = NULL, ![n].next = NULL],
      L |-> [L2 EXCEPT !.total_qty = L.total_qty - nd[n].qty]]

\* the ladder opposite to / on the side of a taker, inside a book record
OppOf(B, taker_side) == IF taker_side = Bid THEN B.asks ELSE B.bids
WithOpp(B, taker_side, lad) ==
  IF taker_side = Bid THEN [B EXCEPT !.asks = lad] ELSE [B EXCEPT !.bids = lad]
SameOf(B, side) == IF side = Bid THEN B.bids ELSE B.asks
WithSame(B, side, lad) ==
  IF side = Bid THEN [B EXCEPT !.bids = lad] ELSE [B EXCEPT !.asks = lad]

\* the best of the ladder that faces a taker
OppBest(opp, taker_side) ==
  IF taker_side = Bid THEN best_ask(opp) ELSE best_bid(opp)

\* a crossing predicate with the two sides' comparisons swapped
crosses_Swapped(taker_side, px_limit, best_px) ==
  IF taker_side = Ask THEN best_px <= px_limit ELSE best_px >= px_limit

\* a crossing predicate that ignores the limit, as for a market order
crosses_Always(taker_side, px_limit, best_px) == TRUE

\* the crossing predicate of match_against
crosses(taker_side, px_limit, best_px) ==

  IF taker_side = Bid THEN best_px <= px_limit ELSE best_px >= px_limit

\* a matcher that takes the youngest order of the bucket
LevelHead_Tail(L) == L.tail

\* a matcher that takes the order at the lowest address of the two ends
LevelHead_LowAddress(L) ==
  IF L.head = NULL THEN NULL ELSE IF L.tail < L.head THEN L.tail ELSE L.head

\* the node the matching loop examines in bucket L
LevelHead(L) == L.head

\* the legacy refresh: the sentinel is stored without walking next_*
AdvanceBest_Sentinel(opp, taker_side, best_px) ==
  IF taker_side = Bid THEN set_best_ask(opp, MAXP) ELSE set_best_bid(opp, MINP)

\* advance the cached best of ladder opp past best_px
AdvanceBest(opp, taker_side, best_px) ==
  LET nxt == IF taker_side = Bid THEN next_ask_after(opp, best_px)
                                 ELSE next_bid_before(opp, best_px)
  IN IF taker_side = Bid THEN set_best_ask(opp, nxt) ELSE set_best_bid(opp, nxt)

\* after the head of the bucket at best_px was removed: refresh when it emptied
AfterRemoval(opp, taker_side, best_px) ==
  IF get_level(opp, best_px).head = NULL
    THEN AdvanceBest(opp, taker_side, best_px)
    ELSE opp

\* erase(L, h); id_index_.erase(h->id); delete h; then the refresh
RemoveHead(m, taker_side, best_px, h) ==
  LET opp0 == Touch(OppOf(m, taker_side), best_px)
      r    == erase(m.node, get_level(opp0, best_px), h)
      opp1 == put_level(opp0, best_px, r.L)
  IN [WithOpp(m, taker_side, AfterRemoval(opp1, taker_side, best_px))
        EXCEPT !.node = MapErase(r.node, h),
               !.id_index = MapErase(m.id_index, m.node[h].id)]

\* a trade that takes the whole head whatever the taker still wants
TradeQty_Whole(want, hqty) == hqty

\* the quantity one trade takes from the head
TradeQty(want, hqty) == Min(want, hqty)

\* Trade with head (FIFO): one pass through lines 60-79
TradeHead(m, taker_side, best_px, h) ==
  LET opp0 == Touch(OppOf(m, taker_side), best_px)
      L    == get_level(opp0, best_px)
      tr   == TradeQty(m.want, m.node[h].qty)
      nd1  == [m.node EXCEPT ![h].qty = @ - tr]
      opp1 == put_level(opp0, best_px, [L EXCEPT !.total_qty = @ - tr])
      ev   == [kind |-> "trade", node |-> h, id |-> m.node[h].id,
               user |-> m.node[h].user, px |-> best_px, qty |-> tr,
               left |-> nd1[h].qty]
      m1   == [WithOpp(m, taker_side, opp1)
                 EXCEPT !.node = nd1,
                        !.filled = @ + tr,
                        !.want = @ - tr,
                        !.events = Append(@, ev)]
  IN IF nd1[h].qty = 0 THEN RemoveHead(m1, taker_side, best_px, h) ELSE m1

\* a matcher that never takes the STP branch
IsSelfTrade_Never(taker_flags, taker_user, h_user) == FALSE

\* Self-trade prevention: taker flags request STP and owner matches
IsSelfTrade(taker_flags, taker_user, h_user) ==

  STP \in taker_flags /\ h_user = taker_user

\* an STP branch that counts the cancelled order against what the taker wants
StpHead_Consumes(m, taker_side, best_px, h) ==
  LET ev == [kind |-> "stp", node |-> h, id |-> m.node[h].id,
             user |-> m.node[h].user, px |-> best_px, qty |-> m.node[h].qty,
             left |-> 0]
  IN [RemoveHead(m, taker_side, best_px, h)
        EXCEPT !.events = Append(m.events, ev),
               !.want = IF m.want > m.node[h].qty THEN m.want - m.node[h].qty ELSE 0]

\* the STP branch: cancel the resting head, no trade
StpHead(m, taker_side, best_px, h) ==
  LET ev == [kind |-> "stp", node |-> h, id |-> m.node[h].id,
             user |-> m.node[h].user, px |-> best_px, qty |-> m.node[h].qty,
             left |-> 0]
  IN [RemoveHead(m, taker_side, best_px, h) EXCEPT !.events = Append(m.events, ev)]

\* a loop without the test for the sentinel of an empty side
match_exits_NoSentinel(m, taker_side, px_limit) ==
  LET best_px == OppBest(OppOf(m, taker_side), taker_side)
  IN \/ ~(m.want > 0)
     \/ ~crosses(taker_side, px_limit, best_px)

\* the loop leaves: want is used up, the opposite side is empty, or its best

\* does not cross px_limit (the while condition and the two breaks)
match_exits(m, taker_side, px_limit) ==
  LET best_px == OppBest(OppOf(m, taker_side), taker_side)
  IN \/ ~(m.want > 0)
     \/ (taker_side = Bid /\ best_px = MAXP) \/ (taker_side = Ask /\ best_px = MINP)
     \/ ~crosses(taker_side, px_limit, best_px)

\* an empty-level branch that leaves the cached best where it is
SkipEmptyLevel_Stay(opp, taker_side, best_px) == Touch(opp, best_px)

\* an empty-level branch that gives the side up: the sentinel is stored
SkipEmptyLevel_Sentinel(opp, taker_side, best_px) ==
  AdvanceBest_Sentinel(Touch(opp, best_px), taker_side, best_px)

\* Level is empty: advance best to next non-empty level

SkipEmptyLevel(opp, taker_side, best_px) ==
  AdvanceBest(Touch(opp, best_px), taker_side, best_px)

\* one pass through the body of the loop, taken when match_exits is false
match_iteration(m, taker_side, taker_user, taker_flags) ==
  LET opp     == OppOf(m, taker_side)
      best_px == OppBest(opp, taker_side)
      h       == LevelHead(get_level(opp, best_px))
  IN IF h = NULL
       THEN WithOpp(m, taker_side, SkipEmptyLevel(opp, taker_side, best_px))
     ELSE IF IsSelfTrade(taker_flags, taker_user, m.node[h].user)
       THEN StpHead(m, taker_side, best_px, h)
     ELSE TradeHead(m, taker_side, best_px, h)

\* the while loop of match_against over m = the book plus want, filled, events
RECURSIVE match_loop(_, _, _, _, _)
match_loop(m, taker_side, taker_user, taker_flags, px_limit) ==
  IF match_exits(m, taker_side, px_limit) THEN m
  ELSE match_loop(match_iteration(m, taker_side, taker_user, taker_flags),
                  taker_side, taker_user, taker_flags, px_limit)

\* the loop variables of match_against when it is entered on book B
match_entry(B, want) ==
  [bids |-> B.bids, asks |-> B.asks, node |-> B.node,
   id_index |-> B.id_index, cap |-> B.cap,
   want |-> want, filled |-> 0, events |-> <<>>]

\* match_against on book B: the book after the loop, with filled and events
match_against(B, taker_side, taker_user, taker_flags, want, px_limit) ==
  match_loop(match_entry(B, want), taker_side, taker_user, taker_flags, px_limit)

(* --------------------------- reading a book --------------------------- *)
\* the handles linked from h through next, at most fuel of them
RECURSIVE Chain(_, _, _)
Chain(nd, h, fuel) ==
  IF h = NULL \/ h \notin DOMAIN nd \/ fuel = 0 THEN <<>>
  ELSE <<h>> \o Chain(nd, nd[h].next, fuel - 1)

\* the FIFO of bucket L, head first
FifoSeq(nd, L) == Chain(nd, L.head, Cardinality(DOMAIN nd))

\* the prices ladder lad holds a bucket for
PricesOf(lad) == {PriceOf(lad, k) : k \in DOMAIN lad.levels}

\* the FIFO at price px of ladder lad (empty when there is no bucket)
FifoAt(nd, lad, px) ==
  IF px \in PricesOf(lad) THEN FifoSeq(nd, lad.levels[Key(lad, px)]) ELSE <<>>

\* the prices of ladder lad whose FIFO is non-empty
NonEmptyPrices(lad) ==
  {px \in PricesOf(lad) : lad.levels[Key(lad, px)].head # NULL}

RECURSIVE SeqSum(_)
SeqSum(q) == IF q = <<>> THEN 0 ELSE Head(q) + SeqSum(Tail(q))

\* the elements of sequence q
Range(q) == {q[i] : i \in 1..Len(q)}

\* position of x in q (x occurs in q)
PosIn(q, x) == CHOOSE i \in 1..Len(q) : q[i] = x

\* q1 is what is left of q0 after dropping elements from its front
IsSuffix(q1, q0) ==
  /\ Len(q1) <= Len(q0)
  /\ q1 = SubSeq(q0, Len(q0) - Len(q1) + 1, Len(q0))

\* the side a modify of order o takes liquidity for, and whether it re-prices
ModifySide(B, o) == B.id_index[o.id].side
Reprices(B, o) ==
  /\ o.id \in DOMAIN B.id_index
  /\ B.id_index[o.id].node # NULL
  /\ o.price # B.id_index[o.id].px

\* the quantity the events of a call traded against node h
TradedFrom(evs, h) ==
  SeqSum([i \in 1..Len(evs) |->
            IF evs[i].kind = "trade" /\ evs[i].node = h THEN evs[i].qty ELSE 0])

\* node h left its FIFO (filled to zero or removed by STP) before event i
GoneBefore(evs, i, h) ==
  \E j \in 1..(i - 1) : evs[j].node = h /\ evs[j].left = 0

(* ------------------------- naming of addresses ------------------------ *)
\* The address operator new returns is arbitrary and BookCore never compares
\* addresses but for equality, so a book is kept up to the naming of its
\* nodes: the linked nodes are numbered in ladder order (bids then asks,
\* prices ascending, each FIFO head first), nodes linked nowhere after them.
RECURSIVE LinOver(_, _, _)
LinOver(nd, lad, pxs) ==
  IF pxs = {} THEN <<>>
  ELSE LET px == SetMin(pxs)
       IN FifoAt(nd, lad, px) \o LinOver(nd, lad, pxs \ {px})

RECURSIVE Ascending(_)
Ascending(S) ==
  IF S = {} THEN <<>> ELSE <<SetMin(S)>> \o Ascending(S \ {SetMin(S)})

Linked(B) ==
  LinOver(B.node, B.bids, PricesOf(B.bids)) \o LinOver(B.node, B.asks, PricesOf(B.asks))

\* book B with every handle h replaced by ren[h]
Rename(B, all, ren) ==
  [B EXCEPT
     !.bids = [B.bids EXCEPT !.levels =
                 [k \in DOMAIN B.bids.levels |->
                    [B.bids.levels[k] EXCEPT !.head = ren[@], !.tail = ren[@]]]],
     !.asks = [B.asks EXCEPT !.levels =
                 [k \in DOMAIN B.asks.levels |->
                    [B.asks.levels[k] EXCEPT !.head = ren[@], !.tail = ren[@]]]],
     !.node = [k \in 1..Len(all) |->
                 [B.node[all[k]] EXCEPT !.prev = ren[@], !.next = ren[@]]],
     !.id_index = [i \in DOMAIN B.id_index |->
                     [B.id_index[i] EXCEPT !.node = ren[@]]]]

\* the nodes of B in their canonical order
CanonOrder(B, lin) == lin \o Ascending(DOMAIN B.node \ Range(lin))

CanonWith(B, all) ==
  Rename(B, all,
         [h \in DOMAIN B.node \cup {NULL} |->
            IF h = NULL THEN NULL ELSE PosIn(all, h)])

\* every handle the book stores names a node of the heap, each linked once
Renamable(B, lin) ==
  /\ Cardinality(Range(lin)) = Len(lin)
  /\ \A h \in DOMAIN B.node :
       B.node[h].prev \in DOMAIN B.node \cup {NULL}
       /\ B.node[h].next \in DOMAIN B.node \cup {NULL}
  /\ \A lad \in {B.bids, B.asks} : \A k \in DOMAIN lad.levels :
       lad.levels[k].head \in DOMAIN B.node \cup {NULL}
       /\ lad.levels[k].tail \in DOMAIN B.node \cup {NULL}
  /\ \A i \in DOMAIN B.id_index : B.id_index[i].node \in DOMAIN B.node \cup {NULL}

CanonVia(B, lin) ==
  IF Renamable(B, lin) THEN CanonWith(B, CanonOrder(B, lin)) ELSE B

Canon(B) == CanonVia(B, Linked(B))

(* ------------------------------ callers ------------------------------- *)
\* Four populations of callers feed a book.
\*  "wide": two users under two ids on both sides at the two top prices of
\*          the band, with and without STP, on a heap of MaxOrders nodes;
\*  "deep": one maker resting bids under three ids at the two top prices,
\*          another user's plain market sells, on a heap of MaxOrders + 1 nodes;
\*  "tall": one user under two ids on both sides at every price of the band,
\*          without STP, on a heap of MaxOrders nodes;
\*  "sparse": the callers of "tall" over two PriceLevelsSparse ladders (the
\*          other three construct PriceLevelsContig over the band).
\* A fifth book, "replay", is the one the replay driver builds: sparse
\* ladders, fed by a Replayer only, on a heap of MaxOrders + 1 nodes.
Profiles == {"wide", "deep", "tall", "sparse"}

Callers(p) ==
  CASE p = "wide" ->
         [cap |-> MaxOrders, ids |-> OrderIds, makers |-> UserIds,
          sides |-> Sides, prices |-> {MaxTick - 1, MaxTick},
          flags |-> FlagWords, takers |-> UserIds, tsides |-> Sides,
          tqtys |-> Quantities]
    [] p = "deep" ->
         [cap |-> MaxOrders + 1, ids |-> OrderIds \cup {103}, makers |-> {9001},
          sides |-> {Bid}, prices |-> {MaxTick - 1, MaxTick},
          flags |-> {{}}, takers |-> {9002}, tsides |-> {Ask},
          tqtys |-> 1..(MaxQty + 1)]
    [] p = "tall" ->
         [cap |-> MaxOrders, ids |-> OrderIds, makers |-> {9001},
          sides |-> Sides, prices |-> Ticks,
          flags |-> {{}}, takers |-> {9001}, tsides |-> Sides,
          tqtys |-> Quantities]
    [] p = "sparse" ->
         [cap |-> MaxOrders, ids |-> OrderIds, makers |-> {9001},
          sides |-> Sides, prices |-> Ticks,
          flags |-> {{}}, takers |-> {9001}, tsides |-> Sides,
          tqtys |-> Quantities]
    [] p = "replay" ->
         [cap |-> MaxOrders + 1, ids |-> {}, makers |-> {},
          sides |-> Sides, prices |-> Ticks,
          flags |-> {{}}, takers |-> {}, tsides |-> {},
          tqtys |-> {}]

\* the ladder class the callers of a profile construct the book over
LadderOf(p) ==
  IF p \in {"sparse", "replay"} THEN PriceLevelsSparse ELSE PriceLevelsContig

\* the state BookCore owns, as one record (cap: the heap bound of the model)
Book ==
  [bids |-> bids, asks |-> asks, node |-> node, id_index |-> id_index,
   cap |-> Callers(profile).cap]

\* what a public call gives back: the book after it, the ExecResult (or the
\* bool of cancel), the loop's events, and whether the heap bound sufficed
Outcome(B, filled, remaining, ok, evs, fits) ==
  [bids |-> B.bids, asks |-> B.asks, node |-> B.node, id_index |-> B.id_index,
   cap |-> B.cap, filled |-> filled, remaining |-> remaining, ok |-> ok,
   events |-> evs, fits |-> fits]

\* new OrderNode{...}: a handle not in use
NewHandle(nd) == SetMin((1..(Cardinality(DOMAIN nd) + 1)) \ DOMAIN nd)

\* a rest that moves the cached best to its price whatever the best was
ImproveBest_Always(same, side, price) ==
  IF side = Bid THEN set_best_bid(same, price) ELSE set_best_ask(same, price)

\* a rest that never moves the cached best
ImproveBest_Never(same, side, price) == same

\* Improve top-of-book if better (submit_limit, after the enqueue)
ImproveBest(same, side, price) ==

  IF side = Bid
    THEN IF price > best_bid(same) THEN set_best_bid(same, price) ELSE same
    ELSE IF price < best_ask(same) THEN set_best_ask(same, price) ELSE same

\* a rest that gives the new node the order's whole qty
Rest_WholeQty(m, o, leftover) ==
  LET same0 == Touch(SameOf(m, o.side), o.price)
      n     == NewHandle(m.node)
      nd0   == MapPut(m.node, n,
                      [id |-> o.id, user |-> o.user, qty |-> o.qty,
                       ts |-> o.ts, flags |-> o.flags,
                       prev |-> NULL, next |-> NULL])
      r     == enqueue(nd0, get_level(same0, o.price), n)
      same1 == ImproveBest(put_level(same0, o.price, r.L), o.side, o.price)
  IN [WithSame(m, o.side, same1)
        EXCEPT !.node = r.node,
               !.id_index = MapPut(m.id_index, o.id,
                                   [side |-> o.side, px |-> o.price, node |-> n])]

\* Rest the remainder at its price (submit_limit, from get_level to the index write)
Rest(m, o, leftover) ==

  LET same0 == Touch(SameOf(m, o.side), o.price)
      n     == NewHandle(m.node)
      nd0   == MapPut(m.node, n,
                      [id |-> o.id, user |-> o.user, qty |-> leftover,
                       ts |-> o.ts, flags |-> o.flags,
                       prev |-> NULL, next |-> NULL])
      r     == enqueue(nd0, get_level(same0, o.price), n)
      same1 == ImproveBest(put_level(same0, o.price, r.L), o.side, o.price)
  IN [WithSame(m, o.side, same1)
        EXCEPT !.node = r.node,
               !.id_index = MapPut(m.id_index, o.id,
                                   [side |-> o.side, px |-> o.price, node |-> n])]

\* a submit_market that rests what it could not fill at the edge of the band
submit_market_Rests(B, o) ==
  IF o.qty <= 0 THEN Outcome(B, 0, 0, TRUE, <<>>, TRUE)
  ELSE
    LET bound == IF o.side = Bid THEN MAXP ELSE MINP
        edge  == IF o.side = Bid THEN MaxTick ELSE MinTick
        m     == match_against(B, o.side, o.user, o.flags, o.qty, bound)
    IN IF o.qty - m.filled > 0 /\ Cardinality(DOMAIN m.node) < m.cap
         THEN Outcome(Rest(m, [o EXCEPT !.price = edge], o.qty - m.filled),
                      m.filled, o.qty - m.filled, TRUE, m.events, TRUE)
         ELSE Outcome(m, m.filled, o.qty - m.filled, TRUE, m.events, TRUE)

\* a submit_market without the test of the quantity
submit_market_NoGuard(B, o) ==
  LET bound == IF o.side = Bid THEN MAXP ELSE MINP
      m     == match_against(B, o.side, o.user, o.flags, o.qty, bound)
  IN Outcome(m, m.filled, o.qty - m.filled, TRUE, m.events, TRUE)

\* ExecResult submit_market(const NewOrder& o)
submit_market(B, o) ==
  IF o.qty <= 0 THEN Outcome(B, 0, 0, TRUE, <<>>, TRUE)
  ELSE
    LET bound == IF o.side = Bid THEN MAXP ELSE MINP
        m     == match_against(B, o.side, o.user, o.flags, o.qty, bound)
    IN Outcome(m, m.filled, o.qty - m.filled, TRUE, m.events, TRUE)

\* a submit_limit that rests the whole order without matching first
submit_limit_NoMatch(B, o) ==
  IF o.qty <= 0 THEN Outcome(B, 0, 0, TRUE, <<>>, TRUE)
  ELSE IF Cardinality(DOMAIN B.node) >= B.cap
    THEN Outcome(B, 0, o.qty, TRUE, <<>>, FALSE)
  ELSE Outcome(Rest(B, o, o.qty), 0, o.qty, TRUE, <<>>, TRUE)

\* ExecResult submit_limit(const NewOrder& o)
submit_limit(B, o) ==

  IF o.qty <= 0 THEN Outcome(B, 0, 0, TRUE, <<>>, TRUE)
  ELSE
    LET m        == match_against(B, o.side, o.user, o.flags, o.qty, o.price)
        leftover == o.qty - m.filled
    IN IF leftover <= 0 THEN Outcome(m, m.filled, 0, TRUE, m.events, TRUE)
       ELSE IF Cardinality(DOMAIN m.node) >= m.cap
         THEN Outcome(m, m.filled, leftover, TRUE, m.events, FALSE)
       ELSE Outcome(Rest(m, o, leftover), m.filled, leftover, TRUE, m.events, TRUE)

\* a refresh that stores the sentinel instead of walking to the next level
RefreshAfterCancel_Sentinel(book, side, px, was_best) ==
  IF get_level(book, px).head = NULL /\ was_best
    THEN IF side = Bid THEN set_best_bid(book, MINP) ELSE set_best_ask(book, MAXP)
    ELSE book

\* a refresh that walks to the next level whenever the order was at the best
RefreshAfterCancel_Always(book, side, px, was_best) ==
  IF was_best
    THEN IF side = Bid
           THEN set_best_bid(book, next_bid_before(book, px))
           ELSE set_best_ask(book, next_ask_after(book, px))
    ELSE book

\* refresh of the cached best after a removal at (side, px) (cancel and modify)

RefreshAfterCancel(book, side, px, was_best) ==
  IF get_level(book, px).head = NULL /\ was_best
    THEN IF side = Bid
           THEN set_best_bid(book, next_bid_before(book, px))
           ELSE set_best_ask(book, next_ask_after(book, px))
    ELSE book

\* the removal both cancel and modify perform on index entry e of id:
\* was_best; erase(L, n); delete n; id_index_.erase(it); refresh
Unlink(B, id, e) ==
  LET book0    == Touch(SameOf(B, e.side), e.px)
      was_best == IF e.side = Bid THEN best_bid(book0) = e.px
                                  ELSE best_ask(book0) = e.px
      r        == erase(B.node, get_level(book0, e.px), e.node)
      book1    == put_level(book0, e.px, r.L)
  IN [WithSame(B, e.side, RefreshAfterCancel(book1, e.side, e.px, was_best))
        EXCEPT !.node = MapErase(r.node, e.node),
               !.id_index = MapErase(B.id_index, id)]

\* bool cancel(OrderId id)
cancel(B, id) ==
  IF id \notin DOMAIN B.id_index THEN Outcome(B, 0, 0, FALSE, <<>>, TRUE)
  ELSE
    LET e == B.id_index[id]
    IN IF e.node = NULL
         THEN Outcome(WithSame(B, e.side, Touch(SameOf(B, e.side), e.px)),
                      0, 0, FALSE, <<>>, TRUE)
         ELSE Outcome(Unlink(B, id, e), 0, 0, TRUE, <<>>, TRUE)

\* an in-place modify that forgets the bucket's cached total
AdjustInPlace_NoTotal(B, e, replacement) ==
  [B EXCEPT !.node = [B.node EXCEPT ![e.node].qty = replacement.qty,
                                    ![e.node].ts = replacement.ts,
                                    ![e.node].flags = replacement.flags]]

\* an in-place modify that sends an order whose size grows to the tail
AdjustInPlace_Requeue(B, e, replacement) ==
  LET book0 == Touch(SameOf(B, e.side), e.px)
      n     == e.node
      grows == replacement.qty > B.node[n].qty
      r0    == erase(B.node, get_level(book0, e.px), n)
      nd0   == [(IF grows THEN r0.node ELSE B.node)
                  EXCEPT ![n].qty = replacement.qty,
                         ![n].ts = replacement.ts,
                         ![n].flags = replacement.flags]
      L     == get_level(book0, e.px)
      r1    == IF grows THEN enqueue(nd0, r0.L, n)
               ELSE [node |-> nd0,
                     L |-> [L EXCEPT !.total_qty =
                                       @ + (replacement.qty - B.node[n].qty)]]
  IN [WithSame(B, e.side, put_level(book0, e.px, r1.L)) EXCEPT !.node = r1.node]

\* an in-place modify that adds the new qty to the bucket's total
AdjustInPlace_AddsTotal(B, e, replacement) ==
  LET book0 == Touch(SameOf(B, e.side), e.px)
      L     == get_level(book0, e.px)
      book1 == put_level(book0, e.px, [L EXCEPT !.total_qty = @ + replacement.qty])
  IN [WithSame(B, e.side, book1)
        EXCEPT !.node = [B.node EXCEPT ![e.node].qty = replacement.qty,
                                       ![e.node].ts = replacement.ts,
                                       ![e.node].flags = replacement.flags]]

\* same price, new_qty > 0: adjust total and node qty; keep time priority
AdjustInPlace(B, e, replacement) ==
  LET book0 == Touch(SameOf(B, e.side), e.px)
      L     == get_level(book0, e.px)
      n     == e.node
      book1 == put_level(book0, e.px,
                 [L EXCEPT !.total_qty = @ + (replacement.qty - B.node[n].qty)])
  IN [WithSame(B, e.side, book1)
        EXCEPT !.node = [B.node EXCEPT ![n].qty = replacement.qty,
                                       ![n].ts = replacement.ts,
                                       ![n].flags = replacement.flags]]

\* a modify to qty <= 0 that writes the zero into the node and leaves it linked
ModifyToZero_InPlace(B, id, e) ==
  LET L == get_level(SameOf(B, e.side), e.px)
  IN [WithSame(B, e.side,
               put_level(SameOf(B, e.side), e.px,
                         [L EXCEPT !.total_qty = @ - B.node[e.node].qty]))
        EXCEPT !.node = [B.node EXCEPT ![e.node].qty = 0]]

\* a cancelling modify that leaves the cached best where it was

ModifyToZero_NoRefresh(B, id, e) ==
  LET side_book == Touch(SameOf(B, e.side), e.px)
      r         == erase(B.node, get_level(side_book, e.px), e.node)
  IN [WithSame(B, e.side, put_level(side_book, e.px, r.L))
        EXCEPT !.node = MapErase(r.node, e.node),
               !.id_index = MapErase(B.id_index, id)]

\* same price, new_qty <= 0: becomes cancellation (modify's own copy of the
\* removal: was_best; erase(L, n); delete n; id_index_.erase(it); refresh)
ModifyToZero(B, id, e) ==
  LET side_book == Touch(SameOf(B, e.side), e.px)
      was_best  == IF e.side = Bid THEN best_bid(side_book) = e.px
                                   ELSE best_ask(side_book) = e.px
      r         == erase(B.node, get_level(side_book, e.px), e.node)
      book1     == put_level(side_book, e.px, r.L)
      book2     == IF r.L.head = NULL /\ was_best
                     THEN IF e.side = Bid
                            THEN set_best_bid(book1, next_bid_before(book1, e.px))
                            ELSE set_best_ask(book1, next_ask_after(book1, e.px))
                     ELSE book1
  IN [WithSame(B, e.side, book2)
        EXCEPT !.node = MapErase(r.node, e.node),
               !.id_index = MapErase(B.id_index, id)]

\* a modify that moves the order to its new price without matching it
modify_RestsOnly(B, replacement) ==
  IF replacement.id \notin DOMAIN B.id_index THEN Outcome(B, 0, 0, TRUE, <<>>, TRUE)
  ELSE
    LET e == B.id_index[replacement.id]
    IN IF e.node = NULL
         THEN Outcome(B, 0, 0, TRUE, <<>>, TRUE)
       ELSE IF replacement.price = e.px
         THEN IF replacement.qty <= 0
                THEN Outcome(ModifyToZero(B, replacement.id, e), 0, 0, TRUE, <<>>, TRUE)
                ELSE Outcome(AdjustInPlace(B, e, replacement), 0, 0, TRUE, <<>>, TRUE)
       ELSE IF replacement.qty <= 0
         THEN Outcome(Unlink(B, replacement.id, e), 0, 0, TRUE, <<>>, TRUE)
       ELSE Outcome(Rest(Unlink(B, replacement.id, e),
                         [replacement EXCEPT !.side = e.side], replacement.qty),
                    0, replacement.qty, TRUE, <<>>, TRUE)

\* a modify that submits the message as a new order when its id is unknown
modify_Upsert(B, replacement) ==
  IF replacement.id \notin DOMAIN B.id_index THEN submit_limit(B, replacement)
  ELSE
    LET e == B.id_index[replacement.id]
    IN IF replacement.price = e.px
         THEN IF replacement.qty <= 0
                THEN Outcome(ModifyToZero(B, replacement.id, e), 0, 0, TRUE, <<>>, TRUE)
                ELSE Outcome(AdjustInPlace(B, e, replacement), 0, 0, TRUE, <<>>, TRUE)
       ELSE submit_limit(Unlink(B, replacement.id, e),
                         [replacement EXCEPT !.side = e.side])

\* a modify that ignores a message with qty <= 0 at another price
modify_IgnoresZero(B, replacement) ==
  IF replacement.id \notin DOMAIN B.id_index THEN Outcome(B, 0, 0, TRUE, <<>>, TRUE)
  ELSE
    LET e == B.id_index[replacement.id]
    IN IF replacement.price = e.px
         THEN IF replacement.qty <= 0
                THEN Outcome(ModifyToZero(B, replacement.id, e), 0, 0, TRUE, <<>>, TRUE)
                ELSE Outcome(AdjustInPlace(B, e, replacement), 0, 0, TRUE, <<>>, TRUE)
       ELSE IF replacement.qty <= 0 THEN Outcome(B, 0, 0, TRUE, <<>>, TRUE)
       ELSE submit_limit(Unlink(B, replacement.id, e),
                         [replacement EXCEPT !.side = e.side])

\* ExecResult modify(const NewOrder& replacement)
modify(B, replacement) ==


  IF replacement.id \notin DOMAIN B.id_index THEN Outcome(B, 0, 0, TRUE, <<>>, TRUE)
  ELSE
    LET e == B.id_index[replacement.id]
    IN IF e.node = NULL
         THEN Outcome(WithSame(B, e.side, Touch(SameOf(B, e.side), e.px)),
                      0, 0, TRUE, <<>>, TRUE)
       ELSE IF replacement.price = e.px
         THEN IF replacement.qty <= 0
                THEN Outcome(ModifyToZero(B, replacement.id, e), 0, 0, TRUE, <<>>, TRUE)
                ELSE Outcome(AdjustInPlace(B, e, replacement), 0, 0, TRUE, <<>>, TRUE)
       ELSE submit_limit(Unlink(B, replacement.id, e),
                         [replacement EXCEPT !.side = e.side])

(* ------------------------------ behaviour ----------------------------- *)
\* struct NewOrder as passed to submit_limit (seq is never read by BookCore
\* and is left out); a few orders carry the invalid quantity 0
LimitOrders(p) ==
  LET c == Callers(p)
  IN [ts : Timestamps, id : c.ids, user : c.makers, side : c.sides,
      price : c.prices, qty : Quantities, flags : c.flags]
     \cup [ts : Timestamps, id : {101}, user : {9001}, side : c.sides,
           price : c.prices, qty : {0}, flags : c.flags]

\* struct NewOrder as passed to submit_market (price is not read)
MarketOrders(p) ==
  LET c == Callers(p)
  IN [ts : Timestamps, id : {101}, user : c.takers, side : c.tsides,
      price : {0}, qty : c.tqtys, flags : c.flags]
     \cup [ts : Timestamps, id : {101}, user : c.takers, side : c.tsides,
           price : {0}, qty : {0}, flags : c.flags]

\* struct NewOrder as passed to modify (side is overwritten by the entry's)
ModifyOrders(p) ==
  LET c == Callers(p)
  IN [ts : Timestamps, id : c.ids, user : c.makers, side : {Bid},
      price : c.prices, qty : Quantities, flags : c.flags]
     \cup [ts : Timestamps, id : c.ids, user : {9001}, side : {Bid},
           price : c.prices, qty : {0}, flags : {{}}]

CancelIds(p) == Callers(p).ids

\* a book its callers use directly has no Replayer on it
NoReplayer == [pc |-> "none"]

\* the call happens: the book becomes the outcome's book
Apply(r) ==
  /\ r.fits
  /\ \E c \in {Canon(r)} :
       /\ bids' = c.bids
       /\ asks' = c.asks
       /\ node' = c.node
       /\ id_index' = c.id_index
  /\ UNCHANGED <<profile, replayer>>

Init ==
  /\ profile \in Profiles
  /\ bids = LadderOf(profile)
  /\ asks = LadderOf(profile)
  /\ node = [h \in {} |-> 0]
  /\ id_index = [i \in {} |-> 0]
  /\ replayer = NoReplayer

SubmitLimit == \E o \in LimitOrders(profile) : Apply(submit_limit(Book, o))

SubmitMarket == \E o \in MarketOrders(profile) : Apply(submit_market(Book, o))

Cancel == \E id \in CancelIds(profile) : Apply(cancel(Book, id))

Modify == \E o \in ModifyOrders(profile) : Apply(modify(Book, o))

Next == SubmitLimit \/ SubmitMarket \/ Cancel \/ Modify

Spec == Init /\ [][Next]_vars

(* ------------------- price-time priority of a taker ------------------- *)
\* What a taking call on side `side` with outcome r did to the opposite
\* ladder of book B, level by level: every traded node was in the FIFO of its
\* level with everything ahead of it already gone, what is left of each level
\* is a suffix of what was there, only the node now at the head may have
\* traded, and each remaining node lost exactly what was traded from it.
FifoKept(B, side, r) ==
  LET evs  == r.events
      opp0 == OppOf(B, side)
      opp1 == OppOf(r, side)
  IN /\ \A i \in 1..Len(evs) :
          evs[i].kind = "trade" =>
            LET Q == FifoAt(B.node, opp0, evs[i].px)
            IN /\ evs[i].node \in Range(Q)
               /\ \A j \in 1..(PosIn(Q, evs[i].node) - 1) : GoneBefore(evs, i, Q[j])
     /\ \A px \in PricesOf(opp0) :
          LET Q0 == FifoAt(B.node, opp0, px)
              Q1 == FifoAt(r.node, opp1, px)
          IN /\ IsSuffix(Q1, Q0)
             /\ \A j \in 1..Len(Q1) :
                  r.node[Q1[j]].qty = B.node[Q1[j]].qty - TradedFrom(evs, Q1[j])
             /\ \A j \in 2..Len(Q1) : TradedFrom(evs, Q1[j]) = 0

\* A residual that rests (order o, outcome r on book B) is the new tail of the
\* FIFO at its price, behind everything that was resting there.
RestsAtTail(B, o, r) ==
  (r.fits /\ r.remaining > 0) =>
    LET Q0 == FifoAt(B.node, SameOf(B, o.side), o.price)
        Q1 == FifoAt(r.node, SameOf(r, o.side), o.price)
    IN /\ Len(Q1) = Len(Q0) + 1
       /\ SubSeq(Q1, 1, Len(Q0)) = Q0
       /\ r.node[Q1[Len(Q1)]].id = o.id
       /\ r.node[Q1[Len(Q1)]].qty = r.remaining

\* C1: strict FIFO within a price level.  In every reachable book, whatever
\* submit_limit, submit_market or price-changing modify is called, the resting
\* orders of a level are consumed head first in arrival order: an order trades
\* only after every order enqueued before it at that price is gone, a partially
\* filled head stays head with its reduced qty, and a residual that rests
\* joins the tail of its level.
C1_StrictFifo ==
  /\ \A o \in LimitOrders(profile) :
       LET r == submit_limit(Book, o)
       IN FifoKept(Book, o.side, r) /\ RestsAtTail(Book, o, r)
  /\ \A o \in MarketOrders(profile) :
       FifoKept(Book, o.side, submit_market(Book, o))
  /\ \A o \in ModifyOrders(profile) :
       Reprices(Book, o) =>
         FifoKept(Book, ModifySide(Book, o), modify(Book, o))

\* C1 witness: three bids rest at one price and a market sell fills the first
\* completely and the second partially, leaving the second as head with its
\* reduced qty and the third behind it.
C1_Witness ==
  \E o \in MarketOrders(profile) : \E px \in Ticks :
    LET r  == submit_market(Book, o)
        Q0 == FifoAt(node, bids, px)
        Q1 == FifoAt(r.node, r.bids, px)
    IN /\ o.side = Ask
       /\ Len(Q0) = 3
       /\ Len(r.events) = 2
       /\ r.events[1].node = Q0[1] /\ r.events[1].left = 0
       /\ r.events[2].node = Q0[2] /\ r.events[2].left > 0
       /\ Q1 = <<Q0[2], Q0[3]>>
       /\ r.node[Q0[2]].qty = r.events[2].left
       /\ r.node[Q0[3]].qty = node[Q0[3]].qty

\* price a is strictly better than price b for a taker on side `side`
\* (a buyer prefers the lower ask, a seller the higher bid)
BetterFor(side, a, b) == IF side = Bid THEN a < b ELSE a > b

\* Across levels: when a trade happens at price p every order that rested at a
\* better price is already gone, and the prices the loop visits never improve.
PriceKept(B, side, r) ==
  LET evs  == r.events
      opp0 == OppOf(B, side)
  IN /\ \A i \in 1..Len(evs) :
          evs[i].kind = "trade" =>
            \A px \in PricesOf(opp0) :
              BetterFor(side, px, evs[i].px) =>
                \A h \in Range(FifoAt(B.node, opp0, px)) : GoneBefore(evs, i, h)
     /\ \A i \in 1..Len(evs) : \A j \in (i + 1)..Len(evs) :
          ~BetterFor(side, evs[j].px, evs[i].px)

\* C2: price priority across levels.  Within one submit or modify the resting
\* orders are consumed best price first: an ask at p trades with a buyer only
\* when no non-empty ask level below p is left, a bid at p with a seller only
\* when no non-empty bid level above p is left.
C2_PricePriority ==
  /\ \A o \in LimitOrders(profile) :
       PriceKept(Book, o.side, submit_limit(Book, o))
  /\ \A o \in MarketOrders(profile) :
       PriceKept(Book, o.side, submit_market(Book, o))
  /\ \A o \in ModifyOrders(profile) :
       Reprices(Book, o) =>
         PriceKept(Book, ModifySide(Book, o), modify(Book, o))

\* C2 witness: one taker trades at two different prices, the better one first.
C2_Witness ==
  \E o \in MarketOrders(profile) :
    LET r == submit_market(Book, o)
    IN /\ Len(r.events) = 2
       /\ r.events[1].kind = "trade" /\ r.events[2].kind = "trade"
       /\ BetterFor(o.side, r.events[1].px, r.events[2].px)

\* price px is acceptable to a limit order on side `side` with limit P
WithinLimit(side, P, px) == IF side = Bid THEN px <= P ELSE px >= P

\* the limit order o with outcome r on book B traded only at acceptable
\* prices and left every level beyond its limit as it was
LimitKept(B, o, r) ==
  LET opp0 == OppOf(B, o.side)
      opp1 == OppOf(r, o.side)
  IN /\ \A i \in 1..Len(r.events) : WithinLimit(o.side, o.price, r.events[i].px)
     /\ \A px \in PricesOf(opp0) :
          ~WithinLimit(o.side, o.price, px) =>
            /\ opp1.levels[Key(opp1, px)] = opp0.levels[Key(opp0, px)]
            /\ \A h \in Range(FifoAt(B.node, opp0, px)) :
                 h \in DOMAIN r.node /\ r.node[h] = B.node[h]

\* C3: the limit price is never violated.  In every reachable book a buy
\* submit_limit at P only reduces resting asks at prices <= P and a sell
\* submit_limit at P only reduces resting bids at prices >= P (also when the
\* submit_limit is the re-submit of a price-changing modify).
C3_LimitNeverViolated ==
  /\ \A o \in LimitOrders(profile) : LimitKept(Book, o, submit_limit(Book, o))
  /\ \A o \in ModifyOrders(profile) :
       Reprices(Book, o) =>
         LimitKept(Book, [o EXCEPT !.side = ModifySide(Book, o)], modify(Book, o))

\* C3 witness: a limit order trades at its limit, stops with quantity left
\* while the opposite side still holds an order beyond the limit, and rests.
C3_Witness ==
  \E o \in LimitOrders(profile) :
    LET r == submit_limit(Book, o)
    IN /\ r.fits /\ r.filled > 0 /\ r.remaining > 0
       /\ NonEmptyPrices(OppOf(r, o.side)) # {}
       /\ \A px \in NonEmptyPrices(OppOf(r, o.side)) :
            ~WithinLimit(o.side, o.price, px)

\* C4: quantity conservation of the result.  In every reachable book every
\* submit_limit and submit_market with qty = n > 0 returns filled >= 0,
\* remaining >= 0 and filled + remaining = n.
C4_QtyConserved ==
  /\ \A o \in LimitOrders(profile) :
       LET r == submit_limit(Book, o)
       IN o.qty > 0 =>
            r.filled >= 0 /\ r.remaining >= 0 /\ r.filled + r.remaining = o.qty
  /\ \A o \in MarketOrders(profile) :
       LET r == submit_market(Book, o)
       IN o.qty > 0 =>
            r.filled >= 0 /\ r.remaining >= 0 /\ r.filled + r.remaining = o.qty

\* C4 witness: a limit order and a market order are each filled in part, the
\* resting order they hit being larger than they are.
C4_Witness ==
  /\ \E o \in LimitOrders(profile) :
       LET r == submit_limit(Book, o)
       IN r.filled > 0 /\ r.remaining > 0
  /\ \E o \in MarketOrders(profile) :
       LET r == submit_market(Book, o)
       IN /\ r.filled = o.qty
          /\ Len(r.events) = 1 /\ r.events[1].left > 0

\* the resting quantity a taker (side, user, flags) can trade with on the
\* opposite ladder of B at the prices in pxs: with STP its own orders do not count
EligibleQty(B, side, user, flags, pxs) ==
  LET hs == LinOver(B.node, OppOf(B, side), pxs)
  IN SeqSum([i \in 1..Len(hs) |->
               IF STP \in flags /\ B.node[hs[i]].user = user
                 THEN 0 ELSE B.node[hs[i]].qty])

\* taker o (bounded by its price when `limited`) with outcome r on book B
\* filled exactly what was eligible, up to its quantity, and when it wanted
\* at least that much nothing eligible is left at an acceptable price
FillExact(B, o, limited, r) ==
  LET opp0 == OppOf(B, o.side)
      opp1 == OppOf(r, o.side)
      ok0  == {px \in PricesOf(opp0) : ~limited \/ WithinLimit(o.side, o.price, px)}
      ok1  == {px \in PricesOf(opp1) : ~limited \/ WithinLimit(o.side, o.price, px)}
      el   == EligibleQty(B, o.side, o.user, o.flags, ok0)
  IN o.qty > 0 =>
       /\ r.filled = Min(o.qty, el)
       /\ o.qty >= el =>
            \A px \in ok1 : \A h \in Range(FifoAt(r.node, opp1, px)) :
              STP \in o.flags /\ r.node[h].user = o.user
       /\ (~limited /\ o.qty >= EligibleQty(B, o.side, o.user, {}, ok0)) =>
            /\ NonEmptyPrices(opp1) = {}
            /\ OppBest(opp1, o.side) = (IF o.side = Bid THEN MAXP ELSE MINP)

\* C5: the fill equals the eligible liquidity.  For a taker of quantity n,
\* filled = min(n, sum of the opposite resting qty at prices within the bound),
\* the bound being the limit price for submit_limit and none for submit_market,
\* a taker's own orders not counting when it carries STP; when n reaches that
\* sum no eligible order is left at a crossing price, and a market order at
\* least as large as the whole opposite side leaves it empty with the sentinel.
C5_FillIsEligibleLiquidity ==
  /\ \A o \in LimitOrders(profile) :
       FillExact(Book, o, TRUE, submit_limit(Book, o))
  /\ \A o \in MarketOrders(profile) :
       FillExact(Book, o, FALSE, submit_market(Book, o))
  /\ \A o \in ModifyOrders(profile) :
       Reprices(Book, o) =>
         FillExact(Book, [o EXCEPT !.side = ModifySide(Book, o)], TRUE,
                   modify(Book, o))

\* C5 witness: an STP market order larger than what others offer meets one of
\* its own orders and one of another user: it fills the other's quantity
\* only and leaves the opposite side empty.
C5_Witness ==
  \E o \in MarketOrders(profile) :
    LET r == submit_market(Book, o)
    IN /\ STP \in o.flags
       /\ Len(r.events) = 2
       /\ \E i \in 1..2 : r.events[i].kind = "stp"
       /\ \E i \in 1..2 : r.events[i].kind = "trade"
       /\ r.filled > 0 /\ r.remaining > 0
       /\ NonEmptyPrices(OppOf(r, o.side)) = {}

\* the market order o with outcome r on book B left its own side and the
\* index entries as they were
NothingRested(B, o, r) ==
  LET same0 == SameOf(B, o.side)
      same1 == SameOf(r, o.side)
  IN /\ same1 = same0
     /\ \A px \in PricesOf(same0) :
          /\ FifoAt(r.node, same1, px) = FifoAt(B.node, same0, px)
          /\ \A h \in Range(FifoAt(B.node, same0, px)) : r.node[h] = B.node[h]
     /\ \A id \in DOMAIN r.id_index :
          id \in DOMAIN B.id_index /\ r.id_index[id] = B.id_index[id]

\* no order rests on either side of B
BothSidesEmpty(B) ==
  /\ DOMAIN B.node = {}
  /\ NonEmptyPrices(B.bids) = {} /\ NonEmptyPrices(B.asks) = {}
  /\ B.bids.best_bid = MINP /\ B.asks.best_ask = MAXP

\* C6: a market order never rests.  After submit_market, whatever is left
\* unfilled, the taker's own side is unchanged (levels, FIFO contents, cached
\* best) and no id-index entry is created; on an empty book the call returns
\* filled = 0, remaining = qty and both sides stay empty.
C6_MarketNeverRests ==
  \A o \in MarketOrders(profile) :
    LET r == submit_market(Book, o)
    IN /\ NothingRested(Book, o, r)
       /\ BothSidesEmpty(Book) =>
            r.filled = 0 /\ r.remaining = o.qty /\ BothSidesEmpty(r)

\* C6 witness: a market order is filled in part while orders rest on its own
\* side, and its remainder goes nowhere.
C6_Witness ==
  \E o \in MarketOrders(profile) :
    LET r == submit_market(Book, o)
    IN /\ r.filled > 0 /\ r.remaining > 0
       /\ NonEmptyPrices(SameOf(Book, o.side)) # {}
       /\ Cardinality(DOMAIN r.node) < Cardinality(DOMAIN node)

(* ------------------------- invariants of a book ----------------------- *)
\* C7: best-price invariant.  After every public operation, in any sequence
\* from an empty book, the cached best_bid is the highest price whose bid FIFO
\* is non-empty, or the minimum-Tick sentinel when no bid rests, and the cached
\* best_ask is the lowest price whose ask FIFO is non-empty, or the
\* maximum-Tick sentinel when no ask rests.
C7_BestExact ==
  /\ bids.best_bid = (IF NonEmptyPrices(bids) = {} THEN MINP
                      ELSE SetMax(NonEmptyPrices(bids)))
  /\ asks.best_ask = (IF NonEmptyPrices(asks) = {} THEN MAXP
                      ELSE SetMin(NonEmptyPrices(asks)))

\* C7 witness: the best bid level holds one order and a worse level is
\* non-empty with an empty level between them; a taker depletes the best level
\* and the cached best becomes the worse level, not the sentinel.
C7_Witness ==
  \E o \in MarketOrders(profile) :
    LET r == submit_market(Book, o)
    IN /\ o.side = Ask
       /\ Cardinality(NonEmptyPrices(bids)) = 2
       /\ SetMax(NonEmptyPrices(bids)) - SetMin(NonEmptyPrices(bids)) = 2
       /\ NonEmptyPrices(r.bids) = {SetMin(NonEmptyPrices(bids))}
       /\ r.bids.best_bid = SetMin(NonEmptyPrices(bids))

\* the quantities of the nodes of FIFO q, in order
QtysOf(nd, q) == [i \in 1..Len(q) |-> nd[q[i]].qty]

\* bucket L of heap nd caches the sum of its nodes' quantities and is empty
\* in all three senses at once
LevelSound(nd, L) ==
  /\ L.total_qty = SeqSum(QtysOf(nd, FifoSeq(nd, L)))
  /\ (L.head = NULL) <=> (L.tail = NULL)
  /\ (L.tail = NULL) <=> (L.total_qty = 0)

\* C8: level aggregate invariant.  After every public operation every
\* LevelFIFO has total_qty = the sum of the qty of the nodes linked in it, and
\* head = null iff tail = null iff total_qty = 0, across partial fills and
\* in-place modifies too.
C8_LevelAggregate ==
  /\ \A k \in DOMAIN bids.levels : LevelSound(node, bids.levels[k])
  /\ \A k \in DOMAIN asks.levels : LevelSound(node, asks.levels[k])

\* C8 witness: a level holds two orders or more and an in-place modify raises
\* the qty of one of them; the level's total then exceeds the new qty.
C8_Witness ==
  \E o \in ModifyOrders(profile) :
    /\ o.id \in DOMAIN id_index
    /\ o.price = id_index[o.id].px
    /\ o.qty > node[id_index[o.id].node].qty
    /\ Len(FifoAt(node, SameOf(Book, id_index[o.id].side), o.price)) >= 2
    /\ LET r == modify(Book, o)
           L == SameOf(r, id_index[o.id].side).levels[
                  Key(SameOf(r, id_index[o.id].side), o.price)]
       IN L.total_qty > o.qty

\* the ids of the nodes linked in some FIFO of book B
LinkedIds(B) == {B.node[h].id : h \in Range(Linked(B))}

\* C9: id-index invariant.  After every public operation, in any sequence
\* (ids already resting may be submitted again), an OrderId is a key of the id
\* index iff some node with that id is linked in some level FIFO.
C9_IdIndexExact == DOMAIN id_index = LinkedIds(Book)

\* sequence q without its element x
Without(q, x) == SelectSeq(q, LAMBDA y : y # x)

\* cancel(id) with outcome r on book B removed exactly the node h: h is gone
\* from its FIFO and from the heap, its level's total dropped by its qty, and
\* every other FIFO, node and level is as it was
RemovedExactly(B, r, h) ==
  /\ h \notin DOMAIN r.node
  /\ \A g \in DOMAIN B.node \ {h} :
       /\ g \in DOMAIN r.node
       /\ r.node[g].id = B.node[g].id /\ r.node[g].qty = B.node[g].qty
       /\ r.node[g].user = B.node[g].user
  /\ \A side \in Sides : \A px \in PricesOf(SameOf(B, side)) :
       LET lad0 == SameOf(B, side)
           lad1 == SameOf(r, side)
           Q0   == FifoAt(B.node, lad0, px)
       IN /\ FifoAt(r.node, lad1, px) = Without(Q0, h)
          /\ lad1.levels[Key(lad1, px)].total_qty =
               lad0.levels[Key(lad0, px)].total_qty
                 - (IF h \in Range(Q0) THEN B.node[h].qty ELSE 0)

\* what C10 says of cancel(id) on book B
CancelExact(B, id) ==
  LET r == cancel(B, id)
  IN /\ r.ok <=> id \in LinkedIds(B)
     /\ r.ok =>
          /\ \E h \in Range(Linked(B)) :
               B.node[h].id = id /\ RemovedExactly(B, r, h)
          /\ ~cancel(r, id).ok

\* taker outcome r on book B: every id whose order was filled completely and
\* that did not rest again in the same call is refused by cancel
FilledIdsRefused(B, r) ==
  \A i \in 1..Len(r.events) :
    (r.events[i].kind = "trade" /\ r.events[i].left = 0
       /\ r.events[i].id \notin DOMAIN r.id_index)
      => ~cancel(r, r.events[i].id).ok

\* C10: cancel(id) returns true exactly when id is currently resting and then
\* removes exactly that order (node unlinked, level total reduced by its
\* remaining qty, the other orders in their FIFO order); a cancel(id) right
\* after a successful cancel(id), or after the order was fully filled, returns
\* false.
C10_CancelExact ==
  /\ \A id \in CancelIds(profile) : CancelExact(Book, id)
  /\ \A o \in MarketOrders(profile) : FilledIdsRefused(Book, submit_market(Book, o))
  /\ \A o \in LimitOrders(profile) : FilledIdsRefused(Book, submit_limit(Book, o))

\* no two linked nodes of book B carry the same id
IdsDistinct(B) ==
  \A h \in Range(Linked(B)) : \A g \in Range(Linked(B)) :
    B.node[h].id = B.node[g].id => h = g

\* C10, in the books where every resting id is indexed and rests once
C10_CancelExactUniqueIds ==
  (IdsDistinct(Book) /\ C9_IdIndexExact) => C10_CancelExact

(* ------------------------ self-trade prevention ----------------------- *)
\* the quantity the events of a call traded in all
TradedTotal(evs) ==
  SeqSum([i \in 1..Len(evs) |-> IF evs[i].kind = "trade" THEN evs[i].qty ELSE 0])

\* The STP taker o (bounded by its price when `limited`) with outcome r on
\* book B: nothing traded with an order of its user; every order the STP
\* branch met was its user's, stood in the FIFO of its price and is gone from
\* it and from the index; what was filled is what was traded, the cancelled
\* quantities not counting; every other order of its user is as it was; and
\* while quantity is left no order rests at a crossing price.
StpKept(B, o, limited, r) ==
  LET evs  == r.events
      opp0 == OppOf(B, o.side)
      opp1 == OppOf(r, o.side)
  IN /\ \A i \in 1..Len(evs) :
          /\ evs[i].kind = "trade" => evs[i].user # o.user
          /\ evs[i].kind = "stp" =>
                /\ evs[i].user = o.user
                /\ evs[i].node \in Range(FifoAt(B.node, opp0, evs[i].px))
                /\ evs[i].node \notin Range(FifoAt(r.node, opp1, evs[i].px))
                /\ evs[i].qty = B.node[evs[i].node].qty
                /\ evs[i].id \in DOMAIN r.id_index =>
                      /\ limited /\ r.remaining > 0 /\ evs[i].id = o.id
                      /\ r.id_index[o.id].side = o.side
                      /\ r.id_index[o.id].px = o.price
     /\ r.filled = TradedTotal(evs)
     /\ r.filled + r.remaining = o.qty
     /\ \A px \in PricesOf(opp0) : \A h \in Range(FifoAt(B.node, opp0, px)) :
          (B.node[h].user = o.user /\ ~\E i \in 1..Len(evs) : evs[i].node = h) =>
            /\ h \in Range(FifoAt(r.node, opp1, px))
            /\ r.node[h].qty = B.node[h].qty
     /\ r.remaining > 0 =>
          \A px \in NonEmptyPrices(opp1) : limited /\ ~WithinLimit(o.side, o.price, px)

\* the opposite side of taker o in book B holds orders, all of o's user
AllOwn(B, o) ==
  /\ NonEmptyPrices(OppOf(B, o.side)) # {}
  /\ \A h \in Range(LinOver(B.node, OppOf(B, o.side), PricesOf(OppOf(B, o.side)))) :
       B.node[h].user = o.user

\* C11: self-trade prevention.  When a taker carries the STP flag, nothing is
\* traded between the taker and a resting order of the same user; each
\* same-user order that reaches the head of a crossing level while the taker
\* still wants quantity is removed from its FIFO and from the id index without
\* trade and without reducing what the taker wants, and matching goes on with
\* the next head; an STP market order that meets only its user's orders
\* returns filled = 0, remaining = qty and leaves the opposite side empty with
\* the sentinel as best.  (The user of a modify's re-submit is the one
\* BookCore::modify passes to submit_limit.)
C11_SelfTradePrevented ==
  /\ \A o \in LimitOrders(profile) :
       (STP \in o.flags /\ o.qty > 0) => StpKept(Book, o, TRUE, submit_limit(Book, o))
  /\ \A o \in MarketOrders(profile) :
       (STP \in o.flags /\ o.qty > 0) =>
         LET r == submit_market(Book, o)
         IN /\ StpKept(Book, o, FALSE, r)
            /\ AllOwn(Book, o) =>
                 /\ r.filled = 0 /\ r.remaining = o.qty
                 /\ NonEmptyPrices(OppOf(r, o.side)) = {}
                 /\ OppBest(OppOf(r, o.side), o.side)
                      = (IF o.side = Bid THEN MAXP ELSE MINP)
  /\ \A o \in ModifyOrders(profile) :
       (STP \in o.flags /\ o.qty > 0 /\ Reprices(Book, o)) =>
         StpKept(Book, [o EXCEPT !.side = ModifySide(Book, o)], TRUE, modify(Book, o))

\* C11 witness: an STP market order meets an order of its own user at the head
\* of the best level and another user's order behind it: the first is
\* cancelled without trade, the second trades, and the cancelled quantity is
\* not taken off what the taker gets.
C11_Witness ==
  \E o \in MarketOrders(profile) :
    LET r == submit_market(Book, o)
    IN /\ STP \in o.flags
       /\ Len(r.events) = 2
       /\ r.events[1].kind = "stp" /\ r.events[1].user = o.user
       /\ r.events[2].kind = "trade" /\ r.events[2].px = r.events[1].px
       /\ r.events[1].qty + r.events[2].qty > o.qty
       /\ r.filled = o.qty /\ r.filled = r.events[2].qty

(* ------------------------------- modify ------------------------------- *)
\* modify message o addresses an order the index of B holds, at its price
SamePrice(B, o) ==
  /\ o.id \in DOMAIN B.id_index
  /\ B.id_index[o.id].node # NULL
  /\ o.price = B.id_index[o.id].px

\* the same-price modify o with new_qty > 0 on book B: result {0,0} and no
\* event; the node has the new qty and is who and where it was; every FIFO is
\* as it was; the level's total moved by new_qty - old_qty; the opposite
\* ladder is untouched
InPlaceKept(B, o) ==
  LET e    == B.id_index[o.id]
      n    == e.node
      r    == modify(B, o)
      lad0 == SameOf(B, e.side)
      lad1 == SameOf(r, e.side)
  IN /\ r.filled = 0 /\ r.remaining = 0 /\ r.events = <<>>
     /\ DOMAIN r.node = DOMAIN B.node
     /\ r.node[n].qty = o.qty
     /\ r.node[n].id = B.node[n].id /\ r.node[n].user = B.node[n].user
     /\ \A h \in DOMAIN B.node \ {n} : r.node[h] = B.node[h]
     /\ \A side \in Sides : \A px \in PricesOf(SameOf(B, side)) :
          FifoAt(r.node, SameOf(r, side), px) = FifoAt(B.node, SameOf(B, side), px)
     /\ n \in Range(FifoAt(r.node, lad1, e.px))
     /\ lad1.levels[Key(lad1, e.px)].total_qty
          = lad0.levels[Key(lad0, e.px)].total_qty + (o.qty - B.node[n].qty)
     /\ OppOf(r, e.side) = OppOf(B, e.side)

\* C12: a same-price modify keeps time priority and never matches.  modify of
\* a resting order (one the id index holds) with new_price equal to its
\* resting price and new_qty > 0 returns {0,0}, sets the node's qty to new_qty
\* (also when larger than before), changes the level's total_qty by exactly
\* new_qty - old_qty, leaves the node at its position in its FIFO, and changes
\* nothing on the opposite side.
C12_SamePriceModifyInPlace ==
  \A o \in ModifyOrders(profile) :
    (SamePrice(Book, o) /\ o.qty > 0) => InPlaceKept(Book, o)

\* C12 witness: the head of a FIFO of two is modified at its price to a larger
\* qty and is still the head, the other order behind it.
C12_Witness ==
  \E o \in ModifyOrders(profile) :
    /\ SamePrice(Book, o) /\ o.qty > 0
    /\ LET e  == id_index[o.id]
           Q0 == FifoAt(node, SameOf(Book, e.side), e.px)
           r  == modify(Book, o)
       IN /\ Len(Q0) = 2 /\ Q0[1] = e.node
          /\ o.qty > node[e.node].qty
          /\ FifoAt(r.node, SameOf(r, e.side), e.px) = Q0
          /\ r.node[e.node].qty = o.qty

\* the non-positive quantities a modify message is tried with
NonPositive == {0, -1}

\* the same-price modify o with new_qty <= 0 on book B gives {0,0} and the
\* book cancel(o.id) gives from B
SameAsCancel(B, o) ==
  LET r == modify(B, o)
      c == cancel(B, o.id)
  IN /\ r.filled = 0 /\ r.remaining = 0 /\ r.events = <<>>
     /\ c.ok
     /\ r.bids = c.bids /\ r.asks = c.asks
     /\ r.node = c.node
     /\ r.id_index = c.id_index

\* C13: a same-price modify with new_qty <= 0 is a cancel.  It returns {0,0}
\* and leaves the book (levels, FIFO order, cached best on both sides, id
\* index) exactly as cancel(id) would have left it from the same state, the
\* refresh of the cached best when the order was the last at the best level
\* included.
C13_ModifyToZeroIsCancel ==
  \A o \in ModifyOrders(profile) : \A q \in NonPositive :
    SamePrice(Book, o) => SameAsCancel(Book, [o EXCEPT !.qty = q])

\* C13 witness: the only order of the best level is modified to qty 0 at its
\* price while a worse level holds an order: the cached best moves there.
C13_Witness ==
  \E o \in ModifyOrders(profile) :
    /\ SamePrice(Book, o) /\ o.qty = 0
    /\ LET e    == id_index[o.id]
           lad0 == SameOf(Book, e.side)
           r    == modify(Book, o)
           lad1 == SameOf(r, e.side)
       IN /\ e.side = Bid
          /\ best_bid(lad0) = e.px
          /\ Len(FifoAt(node, lad0, e.px)) = 1
          /\ Cardinality(NonEmptyPrices(lad0)) = 2
          /\ best_bid(lad1) = SetMin(NonEmptyPrices(lad0))
          /\ o.id \notin DOMAIN r.id_index

\* no order rests on the ladder facing `side` at a price a limit at `price`
\* would take
NonCrossing(B, side, price) ==
  \A px \in NonEmptyPrices(OppOf(B, side)) : ~WithinLimit(side, price, px)

\* the ids of the nodes of FIFO q, in order
IdsOf(nd, q) == [i \in 1..Len(q) |-> nd[q[i]].id]

\* the cached best of ladder lad on its own side
OwnBest(lad, side) == IF side = Bid THEN best_bid(lad) ELSE best_ask(lad)

\* the modify o on book B moved the order to another price without trading:
\* the old FIFO lost that node only, the new FIFO got one node at its tail
\* with o's id and qty, and the cached best stayed when the old level still
\* holds orders and the new price is worse than the old one
MovedToTail(B, o) ==
  LET e    == B.id_index[o.id]
      n    == e.node
      r    == modify(B, o)
      lad0 == SameOf(B, e.side)
      lad1 == SameOf(r, e.side)
      Old0 == FifoAt(B.node, lad0, e.px)
      Old1 == FifoAt(r.node, lad1, e.px)
      New0 == FifoAt(B.node, lad0, o.price)
      New1 == FifoAt(r.node, lad1, o.price)
  IN /\ r.fits /\ r.filled = 0 /\ r.remaining = o.qty
     /\ Old1 = Without(Old0, n)
     /\ \A i \in 1..Len(Old1) : r.node[Old1[i]].qty = B.node[Old1[i]].qty
     /\ IdsOf(r.node, Old1) = IdsOf(B.node, Without(Old0, n))
     /\ (Len(Old0) >= 2 /\ Old0[1] = n) =>
          lad1.levels[Key(lad1, e.px)].head = Old0[2]
     /\ Len(New1) = Len(New0) + 1
     /\ IdsOf(r.node, SubSeq(New1, 1, Len(New0))) = IdsOf(B.node, New0)
     /\ lad1.levels[Key(lad1, o.price)].tail = New1[Len(New1)]
     /\ r.node[New1[Len(New1)]].id = o.id
     /\ r.node[New1[Len(New1)]].qty = o.qty
     /\ r.id_index[o.id] = [side |-> e.side, px |-> o.price, node |-> New1[Len(New1)]]
     /\ (Len(Old0) >= 2 /\ BetterFor(e.side, o.price, e.px)) =>
          OwnBest(lad1, e.side) = OwnBest(lad0, e.side)

\* C14: a price-changing modify loses time priority.  After modify moves a
\* resting order (one the id index holds) to a different, non-crossing price,
\* the order is no longer in the FIFO of its old price (the next order there
\* is head if it was head) and it is the tail of the FIFO at the new price,
\* behind every order already resting there; the cached best stays at the old
\* price when other orders still rest there and the new price is worse.
C14_RepriceLosesPriority ==
  \A o \in ModifyOrders(profile) :
    (Reprices(Book, o) /\ o.qty > 0
       /\ NonCrossing(Book, ModifySide(Book, o), o.price))
      => MovedToTail(Book, o)

\* C14 witness: the head of two bids at the best price is moved to a worse
\* price where a third bid rests: the second bid becomes head of the old
\* level, the moved one stands behind the third, and the best bid stays.
C14_Witness ==
  \E o \in ModifyOrders(profile) :
    /\ Reprices(Book, o) /\ o.qty > 0
    /\ LET e    == id_index[o.id]
           r    == modify(Book, o)
           Old0 == FifoAt(node, bids, e.px)
           New0 == FifoAt(node, bids, o.price)
           New1 == FifoAt(r.node, r.bids, o.price)
       IN /\ e.side = Bid /\ o.price < e.px
          /\ best_bid(bids) = e.px
          /\ Len(Old0) = 2 /\ Old0[1] = e.node
          /\ Len(New0) = 1
          /\ r.bids.levels[Key(r.bids, e.px)].head = Old0[2]
          /\ Len(New1) = 2 /\ r.node[New1[2]].id = o.id
          /\ r.node[New1[1]].id = node[New0[1]].id
          /\ best_bid(r.bids) = e.px

\* the cached bests of book B are the extreme non-empty prices of its sides
BestsExact(B) ==
  /\ B.bids.best_bid = (IF NonEmptyPrices(B.bids) = {} THEN MINP
                        ELSE SetMax(NonEmptyPrices(B.bids)))
  /\ B.asks.best_ask = (IF NonEmptyPrices(B.asks) = {} THEN MAXP
                        ELSE SetMin(NonEmptyPrices(B.asks)))

\* the modify o on book B moved the order to a crossing price: it filled what
\* a limit order of new_qty at the new price can take from the opposite side,
\* the rest rests at the tail of the new price under o's id, nothing of the
\* order is left at the old price or in the index when all was filled, and
\* the cached bests follow
CrossedAndTraded(B, o) ==
  LET e    == B.id_index[o.id]
      side == e.side
      r    == modify(B, o)
      opp0 == OppOf(B, side)
      ok0  == {px \in PricesOf(opp0) : WithinLimit(side, o.price, px)}
      el   == EligibleQty(B, side, o.user, o.flags, ok0)
      New1 == FifoAt(r.node, SameOf(r, side), o.price)
      New0 == FifoAt(B.node, SameOf(B, side), o.price)
  IN /\ r.fits
     /\ r.filled >= 0 /\ r.remaining >= 0
     /\ r.filled + r.remaining = o.qty
     /\ r.filled = Min(o.qty, el)
     /\ r.filled = TradedTotal(r.events)
     /\ \A i \in 1..Len(r.events) : WithinLimit(side, o.price, r.events[i].px)
     /\ e.node \notin Range(FifoAt(r.node, SameOf(r, side), e.px))
     /\ r.remaining > 0 =>
          /\ Len(New1) = Len(New0) + 1
          /\ r.node[New1[Len(New1)]].id = o.id
          /\ r.node[New1[Len(New1)]].qty = r.remaining
          /\ r.id_index[o.id]
               = [side |-> side, px |-> o.price, node |-> New1[Len(New1)]]
     /\ r.remaining = 0 =>
          /\ o.id \notin DOMAIN r.id_index
          /\ Len(New1) = Len(New0)
     /\ BestsExact(B) => BestsExact(r)

\* C15: a price-changing modify can cross and trade.  When modify moves a
\* resting order (one the id index holds) to a price that crosses the opposite
\* best, it returns the {filled, remaining} of matching new_qty against the
\* opposite side at the new limit price, with filled + remaining = new_qty;
\* the residual rests at the new price and the cached bests are updated (a
\* bid moved onto the only, smaller ask: filled = the ask's qty, remaining =
\* the rest, best_ask = sentinel, best_bid = the new price).
C15_RepriceCanCross ==
  \A o \in ModifyOrders(profile) :
    (Reprices(Book, o) /\ o.qty > 0
       /\ ~NonCrossing(Book, ModifySide(Book, o), o.price))
      => CrossedAndTraded(Book, o)

\* C15 witness: one ask rests at a price and one larger bid below it; the bid
\* is modified to the ask's price: the ask is filled whole, the rest of the
\* bid rests at the new price, best_ask is the sentinel and best_bid the new
\* price.
C15_Witness ==
  \E o \in ModifyOrders(profile) :
    /\ Reprices(Book, o) /\ o.qty > 0
    /\ LET e == id_index[o.id]
           r == modify(Book, o)
       IN /\ e.side = Bid /\ o.price > e.px
          /\ NonEmptyPrices(asks) = {o.price}
          /\ Len(FifoAt(node, asks, o.price)) = 1
          /\ node[FifoAt(node, asks, o.price)[1]].qty < o.qty
          /\ r.filled = node[FifoAt(node, asks, o.price)[1]].qty
          /\ r.remaining = o.qty - r.filled
          /\ best_ask(r.asks) = MAXP
          /\ best_bid(r.bids) = o.price

\* the modify o on book B re-submitted the order under the identity of the
\* resting order it replaces: the re-rested node has o's id, the owner of the
\* replaced node, what is left of o's qty and o's flags, on the side and at
\* the price the index then records; and under STP that owner's orders are
\* the ones cancelled instead of traded
IdentityKept(B, o) ==
  LET e     == B.id_index[o.id]
      owner == B.node[e.node].user
      r     == modify(B, o)
      New1  == FifoAt(r.node, SameOf(r, e.side), o.price)
  IN /\ r.remaining > 0 =>
          /\ o.id \in DOMAIN r.id_index
          /\ r.id_index[o.id].side = e.side
          /\ r.id_index[o.id].px = o.price
          /\ r.id_index[o.id].node = New1[Len(New1)]
          /\ r.node[New1[Len(New1)]].id = o.id
          /\ r.node[New1[Len(New1)]].qty = r.remaining
          /\ r.node[New1[Len(New1)]].flags = o.flags
          /\ r.node[New1[Len(New1)]].user = owner
     /\ STP \in o.flags =>
          \A i \in 1..Len(r.events) :
            /\ r.events[i].kind = "trade" => r.events[i].user # owner
            /\ r.events[i].kind = "stp" => r.events[i].user = owner

\* C16: on a price-changing modify the order that is re-submitted carries the
\* same id, the same user and the same side as the resting order it replaces,
\* with the new price, the new qty and the replacement's flags; the owner
\* recorded on the re-rested node, and the owner used for the STP check during
\* the re-submit, is the original order's user whatever the message carries.
C16_ResubmitKeepsIdentity ==
  \A o \in ModifyOrders(profile) :
    (Reprices(Book, o) /\ o.qty > 0) => IdentityKept(Book, o)

\* C16 for the messages that name the owner of the order they modify
C16_ResubmitKeepsIdentityOwnMessage ==
  \A o \in ModifyOrders(profile) :
    (Reprices(Book, o) /\ o.qty > 0
       /\ o.user = node[id_index[o.id].node].user) => IdentityKept(Book, o)

(* ----------------------------- determinism ---------------------------- *)
\* Two instances fed the same events differ in one thing only: the addresses
\* operator new hands out.  Book B with every node at address f[h] instead of h.
Readdress(B, f) ==
  LET g  == [h \in DOMAIN B.node \cup {NULL} |-> IF h = NULL THEN NULL ELSE f[h]]
      at == [a \in {f[h] : h \in DOMAIN B.node} |->
               CHOOSE h \in DOMAIN B.node : f[h] = a]
      lv(lad) == [lad EXCEPT !.levels =
                    [k \in DOMAIN lad.levels |->
                       [lad.levels[k] EXCEPT !.head = g[@], !.tail = g[@]]]]
  IN [B EXCEPT
        !.bids = lv(B.bids),
        !.asks = lv(B.asks),
        !.node = [a \in DOMAIN at |->
                    [B.node[at[a]] EXCEPT !.prev = g[@], !.next = g[@]]],
        !.id_index = [i \in DOMAIN B.id_index |->
                        [B.id_index[i] EXCEPT !.node = g[@]]]]

\* other placements of the k nodes of B: mirrored, and mirrored one
\* address up so that the lowest address is free
Addressings(B) ==
  LET k == Cardinality(DOMAIN B.node)
  IN {[h \in DOMAIN B.node |-> k + 1 - h], [h \in DOMAIN B.node |-> k + 2 - h]}

\* an order as an observer sees it: the node without its links
OrderOf(nd, h) ==
  [id |-> nd[h].id, user |-> nd[h].user, qty |-> nd[h].qty,
   ts |-> nd[h].ts, flags |-> nd[h].flags]

\* the ladder as an observer sees it: the orders of every FIFO in order
DepthOf(nd, lad) ==
  [px \in PricesOf(lad) |->
     LET q == FifoAt(nd, lad, px) IN [i \in 1..Len(q) |-> OrderOf(nd, q[i])]]

\* where index entry e of B points: the place of its node in the FIFO it names
PlaceOf(B, e) ==
  LET q == FifoAt(B.node, SameOf(B, e.side), e.px)
  IN IF e.node \in Range(q) THEN PosIn(q, e.node) ELSE 0

\* the end state of a book, addresses aside
Observed(B) ==
  [bids |-> DepthOf(B.node, B.bids), asks |-> DepthOf(B.node, B.asks),
   best_bid |-> B.bids.best_bid, best_ask |-> B.asks.best_ask,
   index |-> [i \in DOMAIN B.id_index |->
                [side |-> B.id_index[i].side, px |-> B.id_index[i].px,
                 place |-> PlaceOf(B, B.id_index[i])]]]

\* the resting orders a call consumed, in order, addresses aside
Consumed(r) ==
  [i \in 1..Len(r.events) |->
     [kind |-> r.events[i].kind, id |-> r.events[i].id,
      user |-> r.events[i].user, px |-> r.events[i].px,
      qty |-> r.events[i].qty, left |-> r.events[i].left]]

\* two outcomes an observer cannot tell apart
SameOutcome(r1, r2) ==
  /\ r1.filled = r2.filled /\ r1.remaining = r2.remaining /\ r1.ok = r2.ok
  /\ r1.fits = r2.fits
  /\ Consumed(r1) = Consumed(r2)
  /\ Observed(r1) = Observed(r2)

\* C17: determinism.  Two instances started empty and fed the same ordered
\* sequence of submit_limit, submit_market, cancel and modify events give the
\* same results and consumed resting orders and end in the same state (FIFO
\* contents and order at every price, cached bests, id index).  Step by step:
\* from two books that differ only in the addresses of their nodes, every
\* event gives the same result, consumes the same orders and leaves books
\* that again differ only in addresses.
C17_Deterministic ==
  \A f \in Addressings(Book) :
    \E B2 \in {Readdress(Book, f)} :
      /\ Observed(B2) = Observed(Book)
      /\ \A o \in LimitOrders(profile) :
           SameOutcome(submit_limit(Book, o), submit_limit(B2, o))
      /\ \A o \in MarketOrders(profile) :
           SameOutcome(submit_market(Book, o), submit_market(B2, o))
      /\ \A id \in CancelIds(profile) :
           SameOutcome(cancel(Book, id), cancel(B2, id))
      /\ \A o \in ModifyOrders(profile) :
           SameOutcome(modify(Book, o), modify(B2, o))

\* C17 witness: two orders rest in one FIFO, at mirrored addresses in the
\* second instance; a market order fills the first and part of the second,
\* and the two instances consumed the same orders at different addresses.
C17_Witness ==
  \E f \in Addressings(Book) : \E o \in MarketOrders(profile) :
    LET r1 == submit_market(Book, o)
        r2 == submit_market(Readdress(Book, f), o)
    IN /\ Len(r1.events) = 2
       /\ r1.events[1].px = r1.events[2].px
       /\ r1.events[2].left > 0
       /\ r1.events[1].node # r2.events[1].node
       /\ SameOutcome(r1, r2)

(* ----------------------------- round trips ---------------------------- *)
\* submit_limit(o) on book B and then cancel(o.id): the book after both
ThenCancel(B, o) == cancel(submit_limit(B, o), o.id)

\* the order o can be submitted to B as one whose id is not resting
FreshId(B, o) ==
  /\ o.id \notin LinkedIds(B)
  /\ o.id \notin DOMAIN B.id_index
  /\ submit_limit(B, o).fits

\* C18 as stated: in any reachable book, submit_limit of an order whose id is
\* not resting followed at once by cancel of that id returns best_bid and
\* best_ask to their values before the submit and leaves no id-index entry
\* for that id.
C18_SubmitCancelRoundTrip ==
  \A o \in LimitOrders(profile) :
    FreshId(Book, o) =>
      LET c == ThenCancel(Book, o)
      IN /\ c.bids.best_bid = bids.best_bid
         /\ c.asks.best_ask = asks.best_ask
         /\ o.id \notin DOMAIN c.id_index

\* C18 amended: in any reachable book, submit_limit of an order whose id is
\* not resting followed at once by cancel of that id leaves no id-index entry
\* for that id and returns the cached best of the order's own side to its
\* value before the submit; the cached best of the opposite side too returns
\* to its prior value when the order's price does not cross the opposite side
\* (then the order rests whole and the cancel succeeds).
C18_SubmitCancelRoundTripNonCrossing ==
  \A o \in LimitOrders(profile) :
    FreshId(Book, o) =>
      LET c == ThenCancel(Book, o)
      IN /\ o.id \notin DOMAIN c.id_index
         /\ OwnBest(SameOf(c, o.side), o.side) = OwnBest(SameOf(Book, o.side), o.side)
         /\ (o.qty > 0 /\ NonCrossing(Book, o.side, o.price)) =>
              /\ c.ok
              /\ c.bids.best_bid = bids.best_bid
              /\ c.asks.best_ask = asks.best_ask

\* C18 witness: a bid rests; a bid under another id is submitted at a better
\* price, becomes the best bid, and is cancelled: the best bid is again the
\* price of the first.
C18_Witness ==
  \E o \in LimitOrders(profile) :
    /\ FreshId(Book, o) /\ o.qty > 0 /\ o.side = Bid
    /\ NonCrossing(Book, o.side, o.price)
    /\ bids.best_bid # MINP /\ o.price > bids.best_bid
    /\ submit_limit(Book, o).bids.best_bid = o.price
    /\ ThenCancel(Book, o).ok
    /\ ThenCancel(Book, o).bids.best_bid = bids.best_bid

\* the timestamps a modify message is tried with
LaterTimestamps == Timestamps \cup {1001}

\* the message o with its ts and flags replaced
Restamped(o, t, fl) == [o EXCEPT !.ts = t, !.flags = fl]

\* the same-price, same-qty modify o on book B: result {0,0}; ladders (cached
\* bests, every level's head, tail and total), every FIFO and the id index are
\* as they were; the node has o's ts and flags and nothing else changed; and
\* the same modify once more changes nothing
OnlyStampChanged(B, o) ==
  LET n  == B.id_index[o.id].node
      r  == modify(B, o)
      r2 == modify(r, o)
  IN /\ r.filled = 0 /\ r.remaining = 0 /\ r.events = <<>>
     /\ r.bids.best_bid = B.bids.best_bid /\ r.asks.best_ask = B.asks.best_ask
     /\ r.bids = B.bids /\ r.asks = B.asks
     /\ \A side \in Sides : \A px \in PricesOf(SameOf(B, side)) :
          FifoAt(r.node, SameOf(r, side), px) = FifoAt(B.node, SameOf(B, side), px)
     /\ r.id_index = B.id_index
     /\ r.node = [B.node EXCEPT ![n].ts = o.ts, ![n].flags = o.flags]
     /\ r2.filled = 0 /\ r2.remaining = 0
     /\ r2.bids = r.bids /\ r2.asks = r.asks
     /\ r2.node = r.node /\ r2.id_index = r.id_index

\* C19: modify idempotence.  modify of a resting order (one the id index
\* holds) with the same price and the same qty but different ts/flags leaves
\* both cached bests, every level's total_qty and the order of nodes in every
\* FIFO identical; only that node's ts and flags change, and applying the same
\* modify twice gives the same state as applying it once.
C19_ModifyIdempotent ==
  \A o \in ModifyOrders(profile) :
    (SamePrice(Book, o) /\ o.qty = node[id_index[o.id].node].qty) =>
      \A t \in LaterTimestamps : \A fl \in FlagWords :
        OnlyStampChanged(Book, Restamped(o, t, fl))

\* C19 witness: the second order of a FIFO of two is modified with its price
\* and qty, a later ts and the STP flag: it carries both afterwards and is
\* still second.
C19_Witness ==
  \E o \in ModifyOrders(profile) :
    /\ SamePrice(Book, o) /\ o.qty = node[id_index[o.id].node].qty
    /\ LET e  == id_index[o.id]
           Q0 == FifoAt(node, SameOf(Book, e.side), e.px)
           r  == modify(Book, Restamped(o, 1001, {STP}))
       IN /\ Len(Q0) = 2 /\ Q0[2] = e.node
          /\ node[e.node].ts = 1000 /\ node[e.node].flags = {}
          /\ r.node[e.node].ts = 1001 /\ r.node[e.node].flags = {STP}
          /\ FifoAt(r.node, SameOf(r, e.side), e.px) = Q0

(* --------------------------- invalid requests ------------------------- *)
\* outcome r of a call on book B: result {0,0}, nothing consumed, and the
\* ladders (levels and cached bests), the nodes and the id index as in B
NoOp(B, r) ==
  /\ r.filled = 0 /\ r.remaining = 0 /\ r.events = <<>>
  /\ r.fits
  /\ r.bids = B.bids /\ r.asks = B.asks
  /\ r.node = B.node
  /\ r.id_index = B.id_index

\* C20: a non-positive quantity is a no-op.  submit_limit or submit_market
\* with qty <= 0 returns {filled = 0, remaining = 0} and leaves both ladders,
\* both cached bests and the id index unchanged, also when the order's price
\* would cross the opposite side and when it carries STP against resting
\* orders of its user.
C20_NonPositiveQtyNoOp ==
  \A q \in NonPositive :
    /\ \A o \in LimitOrders(profile) :
         NoOp(Book, submit_limit(Book, [o EXCEPT !.qty = q]))
    /\ \A o \in MarketOrders(profile) :
         NoOp(Book, submit_market(Book, [o EXCEPT !.qty = q]))

\* C20 witness: an ask rests and a limit bid of its user with the STP flag
\* and qty 0 comes at a price that crosses it; the ask is still there.
C20_Witness ==
  \E o \in LimitOrders(profile) :
    /\ o.side = Bid /\ STP \in o.flags
    /\ asks.best_ask # MAXP /\ o.price >= asks.best_ask
    /\ LET Q == FifoAt(node, asks, asks.best_ask)
       IN /\ Len(Q) >= 1 /\ node[Q[1]].user = o.user
          /\ FifoAt(submit_limit(Book, [o EXCEPT !.qty = 0]).node,
                    submit_limit(Book, [o EXCEPT !.qty = 0]).asks,
                    asks.best_ask) = Q
          /\ submit_limit(Book, [o EXCEPT !.qty = 0]).remaining = 0

(* ------------------------------- C21 ---------------------------------- *)
\* the ids no order of the book rests under
UnknownIds(B) == OrderIds \ DOMAIN B.id_index

\* C21: an unknown id is a no-op.  For an id that is not in the id index,
\* cancel returns false and modify returns {filled = 0, remaining = 0}, and
\* both leave the ladders, the cached bests and the index unchanged, whatever
\* price, quantity and flags the modify message carries.
C21_UnknownIdNoOp ==
  /\ \A id \in CancelIds(profile) \cap UnknownIds(Book) :
       \E r \in {cancel(Book, id)} : ~r.ok /\ NoOp(Book, r)
  /\ \A ro \in ModifyOrders(profile) :
       ro.id \in UnknownIds(Book) =>
         \E r \in {modify(Book, ro)} : NoOp(Book, r)

\* C21 happens: orders rest on the ask side, id 102 is unknown, cancel(102)
\* fails and a modify of 102 carries a bid price that crosses the best ask
C21_Witness ==
  /\ 102 \in UnknownIds(Book) /\ 101 \in DOMAIN id_index
  /\ asks.best_ask # MAXP
  /\ ~cancel(Book, 102).ok
  /\ \E ro \in ModifyOrders(profile) :
       /\ ro.id = 102 /\ ro.qty > 0 /\ ro.price >= asks.best_ask
       /\ NoOp(Book, modify(Book, ro))

(* ------------------------------- C22 ---------------------------------- *)
\* bool empty(Side s) const: the cached best of the side is its sentinel
empty(B, s) ==
  IF s = Bid THEN best_bid(B.bids) = MINP ELSE best_ask(B.asks) = MAXP

\* the nodes linked in the FIFOs of side s of book B
Resting(B, s) == LinOver(B.node, SameOf(B, s), PricesOf(SameOf(B, s)))

\* C22: empty(side) is exact.  After every public operation, in any sequence
\* from an empty book, empty(Bid) is true iff no bid order is resting and
\* empty(Ask) is true iff no ask order is resting.
C22_EmptyExact ==
  \A s \in Sides : empty(Book, s) <=> (Resting(Book, s) = <<>>)

\* C22 happens: after orders rested and left, one side is empty again and
\* says so while the other holds an order and says so; its emptied level is
\* still there as a bucket
C22_Witness ==
  \E s \in Sides :
    /\ empty(Book, s) /\ Resting(Book, s) = <<>>
    /\ ~empty(Book, (IF s = Bid THEN Ask ELSE Bid)) /\ Resting(Book, (IF s = Bid THEN Ask ELSE Bid)) # <<>>
    /\ profile = "sparse" /\ PricesOf(SameOf(Book, s)) # {}

(* ------------------------------- C23 ---------------------------------- *)
\* the prices the traversal is asked about: the band and two ticks either side
ProbeTicks == (MinTick - 2)..(MaxTick + 2)

\* the smallest price above px whose FIFO is non-empty, else the sentinel
AskAbove(lad, px) ==
  IF {p \in NonEmptyPrices(lad) : p > px} = {} THEN MAXP
  ELSE SetMin({p \in NonEmptyPrices(lad) : p > px})

\* the largest price below px whose FIFO is non-empty, else the sentinel
BidBelow(lad, px) ==
  IF {p \in NonEmptyPrices(lad) : p < px} = {} THEN MINP
  ELSE SetMax({p \in NonEmptyPrices(lad) : p < px})

\* what next_bid_before(px) can return.  PriceLevelsContig starts its scan at
\* levels_[idx(px) - 1]; when that is beyond the array, every read down to
\* levels_.size() is outside it and finds a null or a non-null head as the
\* build happens to have it, and the scan goes on inside the array after them
next_bid_before_Outcomes(lad, px) ==
  IF lad.impl = "contig" /\ idx(px) > Cardinality(DOMAIN lad.levels)
    THEN {MinTick + k : k \in Cardinality(DOMAIN lad.levels)..(idx(px) - 1)}
         \cup {ContigScanDown(lad.levels, Cardinality(DOMAIN lad.levels) - 1)}
    ELSE {next_bid_before(lad, px)}

\* C23 as stated: for both ladder implementations and every px,
\* next_ask_after(px) returns the smallest price strictly greater than px
\* whose FIFO is non-empty, or the maximum-Tick sentinel when none exists, and
\* next_bid_before(px) returns the largest price strictly less than px whose
\* FIFO is non-empty, or the minimum-Tick sentinel when none exists.
C23_NextLevelEveryPx ==
  \A lad \in {bids, asks} : \A px \in ProbeTicks :
    /\ next_ask_after(lad, px) = AskAbove(lad, px)
    /\ \A v \in next_bid_before_Outcomes(lad, px) : v = BidBelow(lad, px)

\* C23, amended: the same for PriceLevelsSparse and every px, and for
\* PriceLevelsContig and every px inside its band [min_tick, max_tick];
\* empty buckets are skipped.
C23_NextLevelInBand ==
  \A lad \in {bids, asks} :
    \A px \in IF lad.impl = "sparse" THEN ProbeTicks ELSE Ticks :
      /\ next_ask_after(lad, px) = AskAbove(lad, px)
      /\ next_bid_before(lad, px) = BidBelow(lad, px)

\* C23 happens: a sparse ladder holds an empty bucket that get_level created
\* between two prices, and both traversals step over it to an order behind it
C23_Witness ==
  \E lad \in {bids, asks} : \E px \in Ticks :
    /\ lad.impl = "sparse"
    /\ px \in DOMAIN lad.levels /\ lad.levels[px].head = NULL
    /\ next_ask_after(lad, px - 1) = px + 1
    /\ next_bid_before(lad, px + 1) = px - 1

(* ------------------------------- C24 ---------------------------------- *)
\* the PriceLevelsContig ladder over the band that holds what ladder lad
\* holds: the same bucket at every price (an empty one where lad has none)
\* and the same cached bests
AsContig(lad) ==
  [impl |-> "contig",
   levels |-> [k \in 0..(MaxTick - MinTick) |->
                 IF MinTick + k \in PricesOf(lad)
                   THEN lad.levels[Key(lad, MinTick + k)] ELSE EmptyLevel],
   best_bid |-> lad.best_bid, best_ask |-> lad.best_ask]

\* the BookCore over two PriceLevelsContig ladders that stands where B stands
OverContig(B) == [B EXCEPT !.bids = AsContig(B.bids), !.asks = AsContig(B.asks)]

\* outcomes rS (over sparse ladders) and rC (over contiguous ones) agree: the
\* same result and events, the same orders, the same index, and at every price
\* of the band the same bucket, with the same cached bests
Interchangeable(rS, rC) ==
  /\ rS.filled = rC.filled /\ rS.remaining = rC.remaining /\ rS.ok = rC.ok
  /\ rS.events = rC.events /\ rS.fits = rC.fits
  /\ rS.node = rC.node /\ rS.id_index = rC.id_index
  /\ AsContig(rS.bids) = rC.bids /\ AsContig(rS.asks) = rC.asks
  /\ \A s \in Sides :
       /\ NonEmptyPrices(SameOf(rS, s)) = NonEmptyPrices(SameOf(rC, s))
       /\ \A px \in Ticks :
            FifoAt(rS.node, SameOf(rS, s), px) = FifoAt(rC.node, SameOf(rC, s), px)

\* C24: the two ladder implementations are interchangeable.  A BookCore over
\* PriceLevelsSparse and one over PriceLevelsContig that hold the same orders
\* answer every operation with in-band prices alike and hold the same orders
\* again afterwards (same results, cached bests, non-empty levels and FIFOs);
\* both start empty, so they agree after every operation of any sequence.
C24_LaddersInterchangeable ==
  (bids.impl = "sparse" /\ asks.impl = "sparse") =>
    \E C \in {OverContig(Book)} :
      /\ \A o \in LimitOrders(profile) :
           Interchangeable(submit_limit(Book, o), submit_limit(C, o))
      /\ \A o \in MarketOrders(profile) :
           Interchangeable(submit_market(Book, o), submit_market(C, o))
      /\ \A id \in CancelIds(profile) :
           Interchangeable(cancel(Book, id), cancel(C, id))
      /\ \A o \in ModifyOrders(profile) :
           Interchangeable(modify(Book, o), modify(C, o))

\* C24 happens: the sparse book has no bucket at some price of the band and
\* an emptied one at another, a market order trades through two levels of it,
\* and a modify moves an order to the price without a bucket
C24_Witness ==
  /\ bids.impl = "sparse"
  /\ \E s \in Sides :
       /\ PricesOf(SameOf(Book, s)) # Ticks
       /\ \E px \in PricesOf(SameOf(Book, s)) : ~has_level(SameOf(Book, s), px)
  /\ \E o \in MarketOrders(profile) : \E r \in {submit_market(Book, o)} :
       /\ Len(r.events) = 2 /\ r.events[1].px # r.events[2].px
       /\ Interchangeable(r, submit_market(OverContig(Book), o))
  /\ \E o \in ModifyOrders(profile) :
       /\ o.id \in DOMAIN id_index /\ o.qty > 0
       /\ o.price \notin PricesOf(SameOf(Book, id_index[o.id].side))
       /\ Interchangeable(modify(Book, o), modify(OverContig(Book), o))

(* ------------------------------- C25 ---------------------------------- *)
\* the prices get_level may be called with on ladder lad: any Tick on the
\* sparse map, the band on the contiguous array
Accessible(lad) == IF lad.impl = "sparse" THEN ProbeTicks ELSE Ticks

\* C25: get_level never makes a level appear non-empty.  For both ladder
\* implementations, get_level(px) on a price that holds no order returns a
\* bucket with head = null, tail = null and total_qty = 0, has_level(px) is
\* false afterwards, and the cached best_bid and best_ask (and every other
\* level) are as they were.
C25_GetLevelKeepsEmpty ==
  \A lad \in {bids, asks} : \A px \in Accessible(lad) :
    FifoAt(node, lad, px) = <<>> =>
      \E after \in {Touch(lad, px)} : \E L \in {get_level(lad, px)} :
        /\ L.head = NULL /\ L.tail = NULL /\ L.total_qty = 0
        /\ ~has_level(after, px)
        /\ best_bid(after) = best_bid(lad) /\ best_ask(after) = best_ask(lad)
        /\ NonEmptyPrices(after) = NonEmptyPrices(lad)
        /\ \A p \in Accessible(lad) :
             has_level(after, p) = has_level(lad, p)

\* C25 happens: a sparse ladder holds an order at one price, an emptied
\* bucket at another and no bucket at a third, where get_level creates one
C25_Witness ==
  \E lad \in {bids, asks} : \E p1, p2, p3 \in Ticks :
    /\ lad.impl = "sparse"
    /\ has_level(lad, p1)
    /\ p2 \in DOMAIN lad.levels /\ ~has_level(lad, p2)
    /\ p3 \notin DOMAIN lad.levels
    /\ Touch(lad, p3) # lad /\ get_level(lad, p3) = EmptyLevel
    /\ ~has_level(Touch(lad, p3), p3)

(* ------------------------------- C26 ---------------------------------- *)
\* in book B every node of the heap is linked in a FIFO and has qty > 0, and
\* every index entry leads to a node of the heap that carries its id
AllPositive(B) ==
  /\ Range(Linked(B)) = DOMAIN B.node
  /\ \A h \in DOMAIN B.node : B.node[h].qty > 0
  /\ \A id \in DOMAIN B.id_index :
       /\ B.id_index[id].node \in DOMAIN B.node
       /\ B.node[B.id_index[id].node].id = id

\* the trades of market order outcome r that took a maker down to zero removed
\* its node and its index entry; the others left their maker linked
ZeroedAreGone(r) ==
  \A i \in 1..Len(r.events) :
    LET ev == r.events[i]
    IN IF ev.left = 0
         THEN /\ ev.node \notin DOMAIN r.node
              /\ ev.node \notin Range(Linked(r))
              /\ \A id \in DOMAIN r.id_index : r.id_index[id].node # ev.node
         ELSE /\ ev.node \in Range(Linked(r))
              /\ r.node[ev.node].qty = ev.left

\* C26: every linked OrderNode has qty > 0.  After every public operation no
\* node with qty <= 0 is linked in any FIFO; a node whose qty reaches zero
\* through a trade, or that is modified in place to qty <= 0, is unlinked and
\* removed from the id index within the same operation.
C26_LinkedQtyPositive ==
  /\ AllPositive(Book)
  /\ \A o \in LimitOrders(profile) :
       \E r \in {submit_limit(Book, o)} : r.fits => AllPositive(r)
  /\ \A o \in MarketOrders(profile) :
       \E r \in {submit_market(Book, o)} : AllPositive(r) /\ ZeroedAreGone(r)
  /\ \A id \in CancelIds(profile) : AllPositive(cancel(Book, id))
  /\ \A o \in ModifyOrders(profile) : \A q \in {o.qty} \cup NonPositive :
       \E r \in {modify(Book, [o EXCEPT !.qty = q])} :
         /\ r.fits => AllPositive(r)
         /\ (q <= 0 /\ SamePrice(Book, o)) =>
              /\ id_index[o.id].node \notin DOMAIN r.node
              /\ id_index[o.id].node \notin Range(Linked(r))
              /\ o.id \notin DOMAIN r.id_index

\* C26 happens: a market order takes one maker down to zero and another
\* partly, and an order of the book is modified in place to qty <= 0
C26_Witness ==
  /\ \E o \in MarketOrders(profile) : \E r \in {submit_market(Book, o)} :
       /\ Len(r.events) = 2
       /\ r.events[1].left = 0 /\ r.events[2].left > 0
       /\ ZeroedAreGone(r)
  /\ \E o \in ModifyOrders(profile) :
       /\ SamePrice(Book, o) /\ o.qty = 0
       /\ o.id \notin DOMAIN modify(Book, o).id_index

(* ------------------------------- C27 ---------------------------------- *)
\* price px is no better than the cached best of the side of ladder lad
NotBetter(lad, side, px) ==
  IF side = Bid THEN px <= best_bid(lad) ELSE px >= best_ask(lad)

\* the limit order o on book B leaves a residual that rests at a price no
\* better than the best of its side, and the cached best of that side stays
RestsBehindTop(B, o) ==
  \E r \in {submit_limit(B, o)} :
    (r.remaining > 0 /\ NotBetter(SameOf(B, o.side), o.side, o.price)) =>
      OwnBest(SameOf(r, o.side), o.side) = OwnBest(SameOf(B, o.side), o.side)

\* cancel(id) on book B removes an order away from the top, or one of several
\* at the top, and the cached best of its side stays
CancelBehindTop(B, id) ==
  id \in DOMAIN B.id_index =>
    \E e \in {B.id_index[id]} : \E r \in {cancel(B, id)} :
      (\/ e.px # OwnBest(SameOf(B, e.side), e.side)
       \/ FifoAt(r.node, SameOf(r, e.side), e.px) # <<>>) =>
        /\ r.ok
        /\ OwnBest(SameOf(r, e.side), e.side) = OwnBest(SameOf(B, e.side), e.side)

\* C27: the best price is left unchanged by operations away from the top.  A
\* submit_limit whose residual rests at a price worse than or equal to the
\* current same-side best leaves that side's cached best unchanged, a cancel
\* of an order at a non-best level leaves it unchanged, and a cancel at the
\* best level leaves it unchanged as long as another order still rests there.
C27_BestKeptAwayFromTop ==
  /\ \A o \in LimitOrders(profile) : RestsBehindTop(Book, o)
  /\ \A id \in CancelIds(profile) : CancelBehindTop(Book, id)

\* C27 happens: two bids rest at the best price; a third rests behind them at
\* a worse price and the best stays, and cancelling one of the two leaves the
\* other at the top and the best stays
C27_Witness ==
  /\ Len(FifoAt(node, bids, bids.best_bid)) = 2
  /\ \E o \in LimitOrders(profile) : \E r \in {submit_limit(Book, o)} :
       /\ o.side = Bid /\ o.price < bids.best_bid
       /\ r.fits /\ r.remaining = o.qty /\ o.qty > 0
       /\ r.bids.best_bid = bids.best_bid
  /\ \E id \in DOMAIN id_index : \E r \in {cancel(Book, id)} :
       /\ id_index[id].px = bids.best_bid /\ id_index[id].side = Bid
       /\ r.ok /\ Len(FifoAt(r.node, r.bids, bids.best_bid)) = 1
       /\ r.bids.best_bid = bids.best_bid

(* ------------------------------- C28 ---------------------------------- *)
\* the callbacks a public call with outcome r makes on logger_, in order.
\* BookCore stores the logger and hands it the ladders in its constructor;
\* no operation of book_core.cpp reads logger_ again
Reported(logger_bound, r) == <<>>

\* the callbacks the mutations of the matching loop call for: a trade is
\* reported as a trade, an STP cancel as a cancel
RECURSIVE LoopCallbacks(_)
LoopCallbacks(evs) ==
  IF evs = <<>> THEN <<>>
  ELSE <<[cb |-> IF Head(evs).kind = "trade" THEN "trade" ELSE "canceled",
          id |-> Head(evs).id, px |-> Head(evs).px, qty |-> Head(evs).qty]>>
       \o LoopCallbacks(Tail(evs))

\* the callback for order o resting with qty left
Accepted(o, left) ==
  <<[cb |-> "accepted", id |-> o.id, px |-> o.price, qty |-> left]>>

\* the callback for the order under index entry e of id leaving book B
Canceled(B, id, e) ==
  <<[cb |-> "canceled", id |-> id, px |-> e.px, qty |-> B.node[e.node].qty]>>

\* the callbacks the successful mutations of each operation call for
DueLimit(o, r) ==
  LoopCallbacks(r.events) \o (IF r.remaining > 0 THEN Accepted(o, r.remaining) ELSE <<>>)
DueMarket(r) == LoopCallbacks(r.events)
DueCancel(B, id, r) == IF r.ok THEN Canceled(B, id, B.id_index[id]) ELSE <<>>
DueModify(B, o, r) ==
  IF o.id \notin DOMAIN B.id_index THEN <<>>
  ELSE IF SamePrice(B, o)
    THEN IF o.qty <= 0 THEN Canceled(B, o.id, B.id_index[o.id]) ELSE <<>>
  ELSE Canceled(B, o.id, B.id_index[o.id]) \o DueLimit(o, r)

\* C28: the logger hook.  When an event logger is bound to the BookCore, every
\* successful mutation is reported to it before the operation returns, in the
\* order the mutations happen: order-accepted for each residual that rests,
\* order-canceled for each cancel (STP cancels included), trade-executed for
\* each trade; failed or no-op operations produce no callback, and with no
\* logger bound nothing is observed.
C28_LoggerHook ==
  /\ \A o \in LimitOrders(profile) : \E r \in {submit_limit(Book, o)} :
       Reported(TRUE, r) = DueLimit(o, r) /\ Reported(FALSE, r) = <<>>
  /\ \A o \in MarketOrders(profile) : \E r \in {submit_market(Book, o)} :
       Reported(TRUE, r) = DueMarket(r) /\ Reported(FALSE, r) = <<>>
  /\ \A id \in CancelIds(profile) : \E r \in {cancel(Book, id)} :
       Reported(TRUE, r) = DueCancel(Book, id, r) /\ Reported(FALSE, r) = <<>>
  /\ \A o \in ModifyOrders(profile) : \E r \in {modify(Book, o)} :
       Reported(TRUE, r) = DueModify(Book, o, r) /\ Reported(FALSE, r) = <<>>

\* C28, the part the code keeps: with no logger bound nothing is observed, and
\* failed or no-op operations produce no callback on a bound logger either
C28_NothingWithoutLogger ==
  /\ \A o \in LimitOrders(profile) : \E r \in {submit_limit(Book, o)} :
       /\ Reported(FALSE, r) = <<>>
       /\ DueLimit(o, r) = <<>> => Reported(TRUE, r) = <<>>
  /\ \A id \in CancelIds(profile) : \E r \in {cancel(Book, id)} :
       /\ Reported(FALSE, r) = <<>>
       /\ ~r.ok => Reported(TRUE, r) = <<>>

(* --------------------------- stale cached best ------------------------- *)
\* The ladders belong to the caller, who can move a cached best with
\* set_best_bid / set_best_ask.  The prices of the band at which the side
\* facing a taker has an empty FIFO and no better non-empty level
StalePrices(opp, taker_side) ==
  {px \in Ticks :
     /\ px \notin NonEmptyPrices(opp)
     /\ \A p \in NonEmptyPrices(opp) :
          IF taker_side = Bid THEN p > px ELSE p < px}

\* book B after the caller set the best facing the taker to px
WithStaleBest(B, taker_side, px) ==
  WithOpp(B, taker_side,
          IF taker_side = Bid THEN set_best_ask(OppOf(B, taker_side), px)
                              ELSE set_best_bid(OppOf(B, taker_side), px))

\* book B and every book it becomes by such a call
StaleOrExact(B, taker_side) ==
  {B} \cup {WithStaleBest(B, taker_side, px) :
              px \in StalePrices(OppOf(B, taker_side), taker_side)}

\* the takers match_against is entered with: those of submit_market (bound at
\* the far sentinel) and those of submit_limit (bound at the order's price)
Takers(p) ==
  {[side |-> o.side, user |-> o.user, flags |-> o.flags, want |-> o.qty,
    px_limit |-> IF o.side = Bid THEN MAXP ELSE MINP] :
     o \in {x \in MarketOrders(p) : x.qty > 0}}
  \cup
  {[side |-> o.side, user |-> o.user, flags |-> o.flags, want |-> o.qty,
    px_limit |-> o.price] :
     o \in {x \in LimitOrders(p) : x.qty > 0}}

(* ------------------------------- C29 ---------------------------------- *)
\* what is left for the loop to do: the quantity wanted, the nodes that can
\* be removed, and the levels from the cached best to the far end of the band
Variant(m, taker_side) ==
  m.want + Cardinality(DOMAIN m.node)
  + Cardinality({p \in Ticks :
                   IF taker_side = Bid THEN p >= best_ask(m.asks)
                                       ELSE p <= best_bid(m.bids)})

\* from m the loop leaves within fuel iterations, each of which lowers Variant
RECURSIVE ExitsWithin(_, _, _)
ExitsWithin(m, t, fuel) ==
  IF match_exits(m, t.side, t.px_limit) THEN TRUE
  ELSE IF fuel = 0 THEN FALSE
  ELSE \E m1 \in {match_iteration(m, t.side, t.user, t.flags)} :
         /\ Variant(m1, t.side) < Variant(m, t.side)
         /\ Variant(m1, t.side) >= 0
         /\ ExitsWithin(m1, t, fuel - 1)

\* the number of iterations from m to the exit (at most fuel are counted)
RECURSIVE Iterations(_, _, _)
Iterations(m, t, fuel) ==
  IF match_exits(m, t.side, t.px_limit) \/ fuel = 0 THEN 0
  ELSE 1 + Iterations(match_iteration(m, t.side, t.user, t.flags), t, fuel - 1)

\* C29: match_against terminates.  For every reachable book, also with a
\* stale cached best, and every taker, the matching loop reaches its exit
\* after finitely many iterations: every iteration that does not leave the
\* loop advances the cached best past an empty level, removes a resting node
\* or reduces the wanted quantity, so that a natural number falls with each
\* iteration and bounds their count.
C29_MatchTerminates ==
  \A t \in Takers(profile) : \A B \in StaleOrExact(Book, t.side) :
    \E m \in {match_entry(B, t.want)} :
      ExitsWithin(m, t, Variant(m, t.side))

\* C29 happens: a taker finds the cached best stale, and its loop advances
\* past the empty level, removes one maker whole, trades part of the next and
\* leaves: three iterations of three kinds
C29_Witness ==
  \E t \in Takers(profile) : \E B \in StaleOrExact(Book, t.side) \ {Book} :
    \E m \in {match_entry(B, t.want)} :
      /\ Iterations(m, t, Variant(m, t.side)) = 3
      /\ ExitsWithin(m, t, 3)
      /\ \E r \in {match_loop(m, t.side, t.user, t.flags, t.px_limit)} :
           /\ Len(r.events) = 2
           /\ r.events[1].left = 0 /\ r.events[2].left > 0

(* ------------------------------- C30 ---------------------------------- *)
\* outcome rS (from a stale cached best) is outcome rE (from the exact one):
\* the same fill, remainder and events, the same orders and index, the same
\* FIFO at every price and the same best on the taker's own side; healed says
\* the facing best is the exact one again as well
SelfHealed(rS, rE, taker_side, healed) ==
  /\ rS.filled = rE.filled /\ rS.remaining = rE.remaining
  /\ rS.events = rE.events /\ rS.fits = rE.fits
  /\ rS.node = rE.node /\ rS.id_index = rE.id_index
  /\ \A s \in Sides : \A px \in Ticks :
       FifoAt(rS.node, SameOf(rS, s), px) = FifoAt(rE.node, SameOf(rE, s), px)
  /\ OwnBest(SameOf(rS, taker_side), taker_side)
       = OwnBest(SameOf(rE, taker_side), taker_side)
  /\ healed =>
       /\ OppBest(OppOf(rS, taker_side), taker_side)
            = OppBest(OppOf(rE, taker_side), taker_side)
       /\ BestsExact(rS)

\* C30: a stale best self-heals.  If the cached best of the side facing a
\* taker was set (through set_best_bid / set_best_ask) to a price whose FIFO
\* is empty while no better non-empty level exists, the taker does not stop
\* there: a taker whose bound reaches that price leaves the cached best at
\* the next non-empty level in the worse direction (or at the sentinel), and
\* every taker fills, and leaves the orders of the book, as it would have
\* with an exact cached best.
C30_StaleBestSelfHeals ==
  \A s \in Sides : \A px \in StalePrices(OppOf(Book, s), s) :
    \E S \in {WithStaleBest(Book, s, px)} :
      /\ \A o \in MarketOrders(profile) :
           (o.side = s /\ o.qty > 0) =>
             SelfHealed(submit_market(S, o), submit_market(Book, o), s, TRUE)
      /\ \A o \in LimitOrders(profile) :
           (o.side = s /\ o.qty > 0) =>
             SelfHealed(submit_limit(S, o), submit_limit(Book, o), s,
                        crosses(s, o.price, px))

\* C30 happens: the best ask was set to an empty level below the asks that
\* rest; a buy limit whose price reaches past it trades with them as it would
\* have, and the cached best ask is exact afterwards
C30_Witness ==
  \E px \in StalePrices(asks, Bid) : \E o \in LimitOrders(profile) :
    \E S \in {WithStaleBest(Book, Bid, px)} : \E r \in {submit_limit(S, o)} :
      /\ NonEmptyPrices(asks) # {} /\ px # asks.best_ask
      /\ o.side = Bid /\ o.qty > 0
      /\ r.filled > 0 /\ r.filled = submit_limit(Book, o).filled
      /\ r.asks.best_ask # px
      /\ SelfHealed(r, submit_limit(Book, o), Bid, TRUE)

(* ------------------------------- C31 ---------------------------------- *)
\* book B is not crossed: when both sides hold orders, the best bid (cached,
\* and the highest price with a bid) is below the best ask (cached, and the
\* lowest price with an ask)
Uncrossed(B) ==
  (NonEmptyPrices(B.bids) # {} /\ NonEmptyPrices(B.asks) # {}) =>
    /\ best_bid(B.bids) < best_ask(B.asks)
    /\ SetMax(NonEmptyPrices(B.bids)) < SetMin(NonEmptyPrices(B.asks))

\* in outcome r of a limit order on side at price, the residual rests only
\* when no opposite order at a crossing price remains
RestsUncrossed(r, side, price) ==
  r.remaining > 0 =>
    \A p \in NonEmptyPrices(OppOf(r, side)) : ~crosses(side, price, p)

\* C31: the book is never crossed.  After every public operation, in any
\* sequence from an empty book, if both sides hold resting orders then
\* best_bid < best_ask; the residual of a limit order (submitted, or
\* re-submitted by a price-changing modify) rests only when no opposite order
\* at a crossing price remains.
C31_NeverCrossed ==
  /\ Uncrossed(Book)
  /\ \A o \in LimitOrders(profile) : \E r \in {submit_limit(Book, o)} :
       Uncrossed(r) /\ RestsUncrossed(r, o.side, o.price)
  /\ \A o \in ModifyOrders(profile) : \E r \in {modify(Book, o)} :
       /\ Uncrossed(r)
       /\ Reprices(Book, o) => RestsUncrossed(r, id_index[o.id].side, o.price)

\* C31 happens: asks rest at two prices, a buy limit at the lower one takes
\* that level whole and rests its remainder there, one tick under the ask
\* that is left
C31_Witness ==
  \E o \in LimitOrders(profile) : \E r \in {submit_limit(Book, o)} :
    /\ o.side = Bid /\ Cardinality(NonEmptyPrices(asks)) = 2
    /\ o.price = asks.best_ask
    /\ r.fits /\ r.filled > 0 /\ r.remaining > 0
    /\ r.bids.best_bid = o.price /\ r.asks.best_ask = o.price + 1
    /\ Uncrossed(r)

(* ------------------------------- C32 ---------------------------------- *)
\* every index entry of book B leads to a node linked in the FIFO of its side
\* at its price, and the node carries the entry's id
EntriesLead(B) ==
  \A id \in DOMAIN B.id_index :
    LET e == B.id_index[id]
    IN /\ e.node \in DOMAIN B.node
       /\ e.node \in Range(FifoAt(B.node, SameOf(B, e.side), e.px))
       /\ B.node[e.node].id = id

\* every linked node of book B is the target of exactly one index entry
NodesIndexedOnce(B) ==
  \A h \in Range(Linked(B)) :
    Cardinality({id \in DOMAIN B.id_index : B.id_index[id].node = h}) = 1

\* C32: id-index entries are exact handles.  After every public operation, in
\* any sequence (ids may be reused by the caller, also while still resting),
\* every index entry id -> (side, px, node) refers to a node that is linked in
\* the FIFO of ladder side at price px and has node.id = id, and every linked
\* node is the target of exactly one index entry.
C32_IndexHandlesExact == EntriesLead(Book) /\ NodesIndexedOnce(Book)

\* C32, the part the code keeps: no entry dangles or names another order, so
\* cancel and modify never touch a node that was already removed
C32_EntriesNeverDangle ==
  /\ EntriesLead(Book)
  /\ \A h \in Range(Linked(Book)) :
       Cardinality({id \in DOMAIN id_index : id_index[id].node = h}) <= 1

(* ------------------------------- C33 ---------------------------------- *)
\* outcome r of the modify o on book B took the order out and did nothing
\* else: {0,0} and no event; the node is gone from the heap and from its FIFO,
\* which keeps its other nodes in order; the id is out of the index and the
\* other entries are as they were; every other FIFO, the one at the new price
\* included, and the opposite ladder are as they were; no bucket appeared; the
\* best of the side is exact again
RemovedOnly(B, o, r) ==
  \E e \in {B.id_index[o.id]} :
    /\ r.filled = 0 /\ r.remaining = 0 /\ r.events = <<>> /\ r.fits
    /\ e.node \notin DOMAIN r.node
    /\ \A h \in DOMAIN r.node : r.node[h].qty = B.node[h].qty
    /\ DOMAIN r.node = DOMAIN B.node \ {e.node}
    /\ o.id \notin DOMAIN r.id_index
    /\ \A id \in DOMAIN B.id_index \ {o.id} :
         id \in DOMAIN r.id_index /\ r.id_index[id] = B.id_index[id]
    /\ FifoAt(r.node, SameOf(r, e.side), e.px)
         = Without(FifoAt(B.node, SameOf(B, e.side), e.px), e.node)
    /\ \A px \in Ticks \ {e.px} :
         FifoAt(r.node, SameOf(r, e.side), px) = FifoAt(B.node, SameOf(B, e.side), px)
    /\ PricesOf(SameOf(r, e.side)) = PricesOf(SameOf(B, e.side))
    /\ OppOf(r, e.side) = OppOf(B, e.side)
    /\ BestsExact(r)

\* C33: a price-changing modify with new_qty <= 0 removes the order.  The
\* existing node is cancelled (the best is refreshed when it emptied the best
\* level), the re-submit is a no-op, the call returns {0,0}, the id is no
\* longer in the index and nothing rests or trades at the new price, also
\* when the new price crosses the opposite side.
C33_RepriceToZeroRemoves ==
  \A o \in ModifyOrders(profile) : \A q \in NonPositive :
    Reprices(Book, o) =>
      RemovedOnly(Book, o, modify(Book, [o EXCEPT !.qty = q]))

\* C33 happens: the only bid at the best price is modified with qty 0 to a
\* price that crosses the best ask; the best bid leaves the emptied level
\* and the ask is untouched
C33_Witness ==
  \E o \in ModifyOrders(profile) : \E r \in {modify(Book, [o EXCEPT !.qty = 0])} :
    /\ Reprices(Book, o)
    /\ id_index[o.id].side = Bid /\ id_index[o.id].px = bids.best_bid
    /\ asks.best_ask # MAXP /\ o.price >= asks.best_ask
    /\ r.bids.best_bid # bids.best_bid
    /\ RemovedOnly(Book, o, r)

(* ------------------------------- C34 ---------------------------------- *)
\* the total resting quantity on side s of book B
SideTotal(B, s) ==
  SeqSum([i \in 1..Len(Resting(B, s)) |-> B.node[Resting(B, s)[i]].qty])

\* the quantity the STP branch removed during a call with events evs
StpTotal(evs) ==
  SeqSum([i \in 1..Len(evs) |-> IF evs[i].kind = "stp" THEN evs[i].qty ELSE 0])

\* a taker on side with flags took outcome r from book B: the opposite side
\* lost what was filled and what STP removed (nothing but the fill without
\* the flag), and the taker's side holds own_before plus what was rested
Accounted(B, r, side, flags, own_before, rested) ==
  \E opp \in {IF side = Bid THEN Ask ELSE Bid} :
    /\ SideTotal(r, opp) = SideTotal(B, opp) - r.filled - StpTotal(r.events)
    /\ STP \notin flags => SideTotal(r, opp) = SideTotal(B, opp) - r.filled
    /\ SideTotal(r, side) = own_before + rested

\* the accounting of submit_limit and submit_market on the current book
DirectTakersAccounted ==
  /\ \A o \in LimitOrders(profile) : \E r \in {submit_limit(Book, o)} :
       r.fits => Accounted(Book, r, o.side, o.flags,
                           SideTotal(Book, o.side), r.remaining)
  /\ \A o \in MarketOrders(profile) : \E r \in {submit_market(Book, o)} :
       Accounted(Book, r, o.side, o.flags, SideTotal(Book, o.side), 0)

\* C34 as stated: for every taking operation (submit_limit, submit_market,
\* price-changing modify) the opposite side's total resting quantity falls by
\* the returned filled and by the quantities STP removed (by filled alone
\* without the flag), and the total resting quantity on the taker's side
\* grows by exactly the rested remainder (0 for market orders).
C34_QtyAccounting ==
  /\ DirectTakersAccounted
  /\ \A o \in ModifyOrders(profile) : \E r \in {modify(Book, o)} :
       (Reprices(Book, o) /\ r.fits) =>
         \E e \in {id_index[o.id]} :
           Accounted(Book, r, e.side, o.flags,
                     SideTotal(Book, e.side), r.remaining)

\* C34, amended: the same for submit_limit and submit_market; for a
\* price-changing modify the opposite side is accounted the same way, and the
\* taker's side holds its total before, less the quantity of the order that
\* was taken out, plus the rested remainder.
C34_QtyAccountingModifyReplaces ==
  /\ DirectTakersAccounted
  /\ \A o \in ModifyOrders(profile) : \E r \in {modify(Book, o)} :
       (Reprices(Book, o) /\ r.fits) =>
         \E e \in {id_index[o.id]} :
           Accounted(Book, r, e.side, o.flags,
                     SideTotal(Book, e.side) - node[e.node].qty, r.remaining)

\* C34 happens: a taker with STP meets an order of its own user and one of
\* another user, so the opposite side loses more than was filled; and a
\* price-changing modify takes an order out of its side and rests it again
\* with another qty
C34_Witness ==
  /\ \E o \in MarketOrders(profile) : \E r \in {submit_market(Book, o)} :
       /\ STP \in o.flags /\ r.filled > 0 /\ StpTotal(r.events) > 0
       /\ Accounted(Book, r, o.side, o.flags, SideTotal(Book, o.side), 0)
  /\ \E o \in ModifyOrders(profile) : \E r \in {modify(Book, o)} :
       /\ Reprices(Book, o) /\ r.fits /\ r.remaining > 0
       /\ r.remaining # node[id_index[o.id].node].qty
       /\ Accounted(Book, r, id_index[o.id].side, o.flags,
                    SideTotal(Book, id_index[o.id].side) - node[id_index[o.id].node].qty,
                    r.remaining)

(* ------------------------------- C35 ---------------------------------- *)
\* the price of limit order o does not cross the opposite best of book B: buy
\* price < best_ask, sell price > best_bid (the sentinels of an empty side
\* are never crossed)
BehindOppBest(B, o) ==
  IF o.side = Bid THEN o.price < best_ask(B.asks) ELSE o.price > best_bid(B.bids)

\* what a node is, apart from its links
Payload(n) == [id |-> n.id, user |-> n.user, qty |-> n.qty, ts |-> n.ts,
               flags |-> n.flags]

\* outcome r of limit order o on book B only added the order: nothing filled
\* or reported, the opposite ladder and its cached best as they were, every
\* node that was there unchanged and in its place, and one new node with o's
\* id, user and whole qty at the tail of the level at o's price
OnlyAdded(B, o, r) ==
  \E same0 \in {SameOf(B, o.side)} : \E same1 \in {SameOf(r, o.side)} :
    \E New1 \in {FifoAt(r.node, same1, o.price)} :
      /\ r.filled = 0 /\ r.remaining = o.qty /\ r.events = <<>>
      /\ OppOf(r, o.side) = OppOf(B, o.side)
      /\ \A h \in DOMAIN B.node :
           h \in DOMAIN r.node /\ Payload(r.node[h]) = Payload(B.node[h])
      /\ Cardinality(DOMAIN r.node) = Cardinality(DOMAIN B.node) + 1
      /\ \A px \in Ticks \ {o.price} :
           FifoAt(r.node, same1, px) = FifoAt(B.node, same0, px)
      /\ Len(New1) = Len(FifoAt(B.node, same0, o.price)) + 1
      /\ SubSeq(New1, 1, Len(New1) - 1) = FifoAt(B.node, same0, o.price)
      /\ New1[Len(New1)] \notin DOMAIN B.node
      /\ same1.levels[Key(same1, o.price)].tail = New1[Len(New1)]
      /\ Payload(r.node[New1[Len(New1)]])
           = [id |-> o.id, user |-> o.user, qty |-> o.qty, ts |-> o.ts,
              flags |-> o.flags]

\* C35: a non-crossing limit order only adds.  submit_limit with qty > 0
\* whose price does not cross the opposite best (buy price < best_ask, sell
\* price > best_bid, or opposite side empty) returns filled = 0 and
\* remaining = qty, leaves the opposite ladder and its cached best unchanged,
\* leaves every existing same-side node and its FIFO position unchanged, and
\* appends exactly one node with qty = remaining at the tail of the level at
\* its price.
C35_NonCrossingOnlyAdds ==
  \A o \in LimitOrders(profile) : \E r \in {submit_limit(Book, o)} :
    (o.qty > 0 /\ BehindOppBest(Book, o) /\ r.fits) => OnlyAdded(Book, o, r)

\* C35 happens: a buy limit with the STP flag comes in one tick under the
\* best ask, which is an order of its own user, and rests whole
C35_Witness ==
  \E o \in LimitOrders(profile) : \E r \in {submit_limit(Book, o)} :
    /\ o.side = Bid /\ o.qty > 0 /\ o.price + 1 = asks.best_ask
    /\ STP \in o.flags
    /\ node[asks.levels[Key(asks, asks.best_ask)].head].user = o.user
    /\ r.fits /\ OnlyAdded(Book, o, r)

(* ------------------------------- C36 ---------------------------------- *)
\* the prices of the ladder facing taker o in book B that satisfy its bound
\* (every price for a market order)
Reachable(B, o, limited) ==
  {px \in PricesOf(OppOf(B, o.side)) : ~limited \/ WithinLimit(o.side, o.price, px)}

\* taker o without the STP flag, with outcome r on book B: no order was
\* cancelled, and it filled what rests within its bound up to its qty, orders
\* of its own user and orders that carry STP themselves included
TradesWithOwn(B, o, limited, r) ==
  /\ \A i \in 1..Len(r.events) : r.events[i].kind = "trade"
  /\ r.filled = Min(o.qty, SeqSum([i \in 1..Len(LinOver(B.node, OppOf(B, o.side),
                                                        Reachable(B, o, limited))) |->
                             B.node[LinOver(B.node, OppOf(B, o.side),
                                            Reachable(B, o, limited))[i]].qty]))

\* taker o with the STP flag, with outcome r on book B: each order the STP
\* branch removed was of o's user, at a price within o's bound, at the head of
\* its level (all that stood before it were met before it) and met while o
\* still wanted quantity
StpOnlyAtReach(B, o, limited, r) ==
  \A i \in 1..Len(r.events) :
    r.events[i].kind = "stp" =>
      \E ev \in {r.events[i]} :
        \E q \in {FifoAt(B.node, OppOf(B, o.side), ev.px)} :
          /\ ev.user = o.user
          /\ ev.px \in Reachable(B, o, limited)
          /\ ev.node \in Range(q)
          /\ \A k \in 1..(PosIn(q, ev.node) - 1) :
               \E j \in 1..(i - 1) : r.events[j].node = q[k] /\ r.events[j].left = 0
          /\ TradedTotal(SubSeq(r.events, 1, i - 1)) < o.qty

\* the orders of o's user that the taker did not meet stay resting, with
\* their quantity; this holds in particular for all of them at prices beyond
\* o's bound, and for all that no event names when o was filled completely
OwnStayResting(B, o, limited, r) ==
  \A px \in PricesOf(OppOf(B, o.side)) :
    \A h \in Range(FifoAt(B.node, OppOf(B, o.side), px)) :
      /\ (B.node[h].user = o.user /\ ~\E i \in 1..Len(r.events) : r.events[i].node = h) =>
           /\ h \in Range(FifoAt(r.node, OppOf(r, o.side), px))
           /\ r.node[h].qty = B.node[h].qty
      /\ (B.node[h].user = o.user /\ px \notin Reachable(B, o, limited)) =>
           ~\E i \in 1..Len(r.events) : r.events[i].node = h

\* and they stay indexed: an entry that led to such an order still does
OwnStayIndexed(B, o, r) ==
  \A id \in DOMAIN B.id_index :
    \E e \in {B.id_index[id]} :
      (e.side # o.side /\ B.node[e.node].user = o.user
         /\ ~\E i \in 1..Len(r.events) : r.events[i].node = e.node) =>
        id \in DOMAIN r.id_index /\ r.id_index[id] = e

\* C36 without the words "and indexed": STP is decided by the taker's flag
\* alone and is local to what the taker reaches
C36_StpLocalResting ==
  /\ \A o \in LimitOrders(profile) : \E r \in {submit_limit(Book, o)} :
       o.qty > 0 =>
         IF STP \in o.flags
           THEN StpOnlyAtReach(Book, o, TRUE, r) /\ OwnStayResting(Book, o, TRUE, r)
           ELSE TradesWithOwn(Book, o, TRUE, r)
  /\ \A o \in MarketOrders(profile) : \E r \in {submit_market(Book, o)} :
       o.qty > 0 =>
         IF STP \in o.flags
           THEN StpOnlyAtReach(Book, o, FALSE, r) /\ OwnStayResting(Book, o, FALSE, r)
           ELSE TradesWithOwn(Book, o, FALSE, r)

\* C36: STP is decided by the taker's flag alone and is local to what the
\* taker reaches.  A taker without the STP flag trades against a resting
\* order of its own user even when that order was submitted with STP; a taker
\* with STP removes only same-user resting orders that are at the head of a
\* level satisfying its price bound while it still wants quantity, so
\* same-user orders at non-crossing prices, or behind the point where the
\* taker was completely filled, stay resting and indexed.
C36_StpLocal ==
  /\ C36_StpLocalResting
  /\ \A o \in LimitOrders(profile) :
       (o.qty > 0 /\ STP \in o.flags) =>
         OwnStayIndexed(Book, o, submit_limit(Book, o))
  /\ \A o \in MarketOrders(profile) :
       (o.qty > 0 /\ STP \in o.flags) =>
         OwnStayIndexed(Book, o, submit_market(Book, o))

\* C36 in the books whose resting ids are distinct and indexed, for takers
\* that bring no id that is resting
C36_StpLocalUniqueIds ==
  (IdsDistinct(Book) /\ C9_IdIndexExact) =>
    /\ C36_StpLocalResting
    /\ \A o \in LimitOrders(profile) :
         (o.qty > 0 /\ STP \in o.flags /\ o.id \notin DOMAIN id_index) =>
           OwnStayIndexed(Book, o, submit_limit(Book, o))
    /\ \A o \in MarketOrders(profile) :
         (o.qty > 0 /\ STP \in o.flags) =>
           OwnStayIndexed(Book, o, submit_market(Book, o))

(* ------------------------------- C37 ---------------------------------- *)
\* the prices the matching loop passes to the ladder facing taker t from loop
\* state m on: each iteration calls get_level(best_px), and next_*(best_px)
\* when the level is or becomes empty.  (The walk stops at a price outside
\* the band, where the array has no bucket to go on with.)
RECURSIVE LoopAccesses(_, _, _)
LoopAccesses(m, t, fuel) ==
  IF match_exits(m, t.side, t.px_limit) \/ fuel = 0 THEN {}
  ELSE LET best_px == OppBest(OppOf(m, t.side), t.side)
       IN {best_px} \cup
          (IF best_px \in Ticks
             THEN LoopAccesses(match_iteration(m, t.side, t.user, t.flags), t, fuel - 1)
             ELSE {})

\* the prices submit_limit(o) passes to the ladders of book B: those of its
\* matching loop, and get_level(o.price) when a remainder rests
LimitAccesses(B, o) ==
  IF o.qty <= 0 THEN {}
  ELSE LET t == [side |-> o.side, user |-> o.user, flags |-> o.flags,
                 want |-> o.qty, px_limit |-> o.price]
           m == match_entry(B, o.qty)
       IN LoopAccesses(m, t, Variant(m, o.side))
          \cup (IF submit_limit(B, o).remaining > 0 THEN {o.price} ELSE {})

\* the prices submit_market(o) passes to the ladders: those of its loop, whose
\* bound is the far sentinel; o.price is not read
MarketAccesses(B, o) ==
  IF o.qty <= 0 THEN {}
  ELSE LET t == [side |-> o.side, user |-> o.user, flags |-> o.flags,
                 want |-> o.qty,
                 px_limit |-> IF o.side = Bid THEN MAXP ELSE MINP]
           m == match_entry(B, o.qty)
       IN LoopAccesses(m, t, Variant(m, o.side))

\* the prices cancel(id) passes to the ladder: get_level(e.px), next_*(e.px)
CancelAccesses(B, id) ==
  IF id \in DOMAIN B.id_index THEN {B.id_index[id].px} ELSE {}

\* the prices modify(o) passes to the ladders: get_level(e.px) and
\* next_*(e.px), and on a price change those of the re-submit
ModifyAccesses(B, o) ==
  IF o.id \notin DOMAIN B.id_index THEN {}
  ELSE LET e == B.id_index[o.id]
       IN {e.px} \cup
          (IF o.price = e.px THEN {}
           ELSE LimitAccesses(Unlink(B, o.id, e), [o EXCEPT !.side = e.side]))

\* price px is inside the band: its index is one of the level array
InBand(px) == px \in Ticks /\ idx(px) \in 0..(MaxTick - MinTick)

\* C37: contiguous-ladder accesses stay in band.  With PriceLevelsContig over
\* [min_tick, max_tick] and every submit_limit price and modify new_price
\* inside the band, every get_level, next_ask_after and next_bid_before call
\* BookCore makes uses a price inside the band (has_level is never called);
\* market orders, whose price field is out of band, and the sentinel bounds
\* never index the level array.
C37_ContigAccessesInBand ==
  (bids.impl = "contig" /\ asks.impl = "contig") =>
    /\ \A o \in LimitOrders(profile) : \A px \in LimitAccesses(Book, o) : InBand(px)
    /\ \A o \in MarketOrders(profile) :
         ~InBand(o.price) /\ \A px \in MarketAccesses(Book, o) : InBand(px)
    /\ \A id \in CancelIds(profile) : \A px \in CancelAccesses(Book, id) : InBand(px)
    /\ \A o \in ModifyOrders(profile) : \A px \in ModifyAccesses(Book, o) : InBand(px)

\* C37 happens: a market order with price field 0 takes both levels of a
\* contiguous ladder, reads the two buckets and stops at the sentinel
C37_Witness ==
  /\ bids.impl = "contig"
  /\ \E o \in MarketOrders(profile) : \E r \in {submit_market(Book, o)} :
       /\ o.price = 0 /\ ~InBand(o.price)
       /\ Cardinality(MarketAccesses(Book, o)) = 2
       /\ \A px \in MarketAccesses(Book, o) : InBand(px)
       /\ OppBest(OppOf(r, o.side), o.side) \in {MINP, MAXP}
       /\ r.remaining > 0

(* ------------------------------ Replayer ------------------------------ *)
\* The replay driver (replay.cpp).  Prices and sizes of the feed are doubles
\* holding integers; the model counts them in whole ticks and whole units,
\* so the factor 1e8 of the quantisation drops out of every key and id.

\* pack64's shift of the side bit (2^32 in the code): above every hashed
\* price and every price plus size of the model
KEY_SHIFT == 64
\* id tags of the synthetic per-level orders (0x9000... and 0xA000...)
FIRST_TAG == 9000
GROW_TAG == 10000
\* UserId 0x42 of every synthetic order
REPLAY_USER == 66

\* static inline uint64_t pack64(uint64_t a, uint64_t b): (a << 32) ^ b, a sum
\* while b stays below the shift
pack64(a, b) == a * KEY_SHIFT + b

\* uint64_t Replayer::level_key(Side s, double px); std::hash<long long> is
\* the identity
level_key(s, px) == pack64(IF s = Bid THEN 1 ELSE 0, px)

\* a remainder as C++ computes it: truncated towards zero, with the sign of a
CRem(a, b) == IF a >= 0 THEN a % b ELSE -((-a) % b)

\* int64_t Replayer::align_up(int64_t ts_ns, int64_t step_ns)
align_up(ts_ns, step_ns) ==
  IF step_ns <= 0 THEN ts_ns
  ELSE LET r == CRem(ts_ns, step_ns)
       IN IF r # 0 THEN ts_ns + (step_ns - r) ELSE ts_ns

\* void LevelBook::set_level(Side s, double px, double total_sz) on the
\* pair of maps [bids_, asks_]
set_level(lb, s, px, total_sz) ==
  LET M == IF s = Bid THEN lb.bids_ ELSE lb.asks_
      M1 == IF total_sz <= 0 THEN MapErase(M, px) ELSE MapPut(M, px, total_sz)
  IN IF s = Bid THEN [lb EXCEPT !.bids_ = M1] ELSE [lb EXCEPT !.asks_ = M1]

\* the order id the first synthetic order of a level gets
FirstId(key) == FIRST_TAG + key

\* the order id a synthetic order that grows a level by delta gets
GrowId(key, delta) == GROW_TAG + (key + delta)

\* the book untouched, as the outcome of an event that calls nothing
Untouched(B) == Outcome(B, 0, 0, TRUE, <<>>, TRUE)

\* book_.modify(m) with ModifyOrder m{id, new_price, new_qty, flags}: the
\* message BookCore::modify reads its id, price, qty, ts and flags from
AsModify(id, new_price, new_qty) ==
  [ts |-> 0, id |-> id, user |-> 0, side |-> Bid, price |-> new_price,
   qty |-> new_qty, flags |-> {}]

\* void Replayer::apply_book_event(const NormEvent& e) on replayer R over
\* book B: the replayer's maps after it and the outcome of its one call
apply_book_event(R, B, e) ==
  LET key        == level_key(e.side, e.price)
      new_total  == IF e.qty < 0 THEN 0 ELSE e.qty
      prev_total == IF key \in DOMAIN R.level_size_ THEN R.level_size_[key] ELSE 0
      R1         == [R EXCEPT !.level_book_ =
                                 set_level(@, e.side, e.price, new_total)]
      order(id, qty) ==
        [ts |-> 0, id |-> id, user |-> REPLAY_USER, side |-> e.side,
         price |-> e.price, qty |-> qty, flags |-> {}]
  IN IF new_total = prev_total THEN [rp |-> R1, book |-> Untouched(B)]
     ELSE IF key \notin DOMAIN R.level_order_id_
       THEN IF new_total <= 0 THEN [rp |-> R1, book |-> Untouched(B)]
            ELSE [rp |-> [R1 EXCEPT
                            !.level_order_id_ = MapPut(@, key, FirstId(key)),
                            !.level_size_ = MapPut(@, key, new_total)],
                  book |-> submit_limit(B, order(FirstId(key), new_total))]
     ELSE
       LET id    == R.level_order_id_[key]
           delta == new_total - prev_total
       IN IF new_total <= 0
            THEN [rp |-> [R1 EXCEPT !.level_order_id_ = MapErase(@, key),
                                    !.level_size_ = MapErase(@, key)],
                  book |-> cancel(B, id)]
          ELSE IF delta > 0
            THEN [rp |-> [R1 EXCEPT !.level_size_ = MapPut(@, key, new_total)],
                  book |-> submit_limit(B, order(GrowId(key, delta), delta))]
          ELSE [rp |-> [R1 EXCEPT !.level_size_ = MapPut(@, key, new_total)],
                book |-> modify(B, AsModify(id, e.price, new_total))]

\* enum class NormType
NormTypes == {"Book", "Trade"}

\* the fields of a NormEvent that Replayer::run reads; side, price and qty
\* of an event are read by its handler only and are drawn where it is applied
NormEvents == [ts_ns : (-MaxBack)..MaxTs, type : NormTypes]

\* the event lists a caller passes: sorted by ts_ns, the empty one included
EventLists ==
  {evs \in UNION {[1..n -> NormEvents] : n \in 0..MaxEvents} :
     \A j \in 1..Len(evs), k \in 1..Len(evs) : j <= k => evs[j].ts_ns <= evs[k].ts_ns}

\* struct Replayer::Options: cadence_ns (speed and realtime_sleep only pace
\* the wall clock)
OptionsValues == [cadence_ns : 0..MaxCadence]

\* the side, price and size of a Book event the feed can send next: integral,
\* and a positive size never at a price that crosses the feed's other side
FeedLevels(R) ==
  {l \in [side : Sides, price : Ticks, qty : (-1)..MaxSize] :
     l.qty > 0 =>
       IF l.side = Bid THEN \A a \in DOMAIN R.level_book_.asks_ : l.price < a
       ELSE \A b \in DOMAIN R.level_book_.bids_ : l.price > b}

\* Replayer rp(book, writer) and the call rp.run(events, opt) about to start:
\* empty maps, an open writer with two empty files (quotes, trades), no
\* handler called yet (applied)
NewReplayer(events, opt) ==
  [pc |-> "run", events |-> events, opt |-> opt, i |-> 0, ret |-> FALSE,
   next_sample_ns |-> 0, last_ts_ns |-> 0,
   quotes |-> <<>>, trades |-> <<>>, applied |-> <<>>,
   level_book_ |-> [bids_ |-> [x \in {} |-> 0], asks_ |-> [x \in {} |-> 0]],
   level_size_ |-> [x \in {} |-> 0],
   level_order_id_ |-> [x \in {} |-> 0]]

\* the handler call run makes for event i, as the record of it: the event's
\* position in the list and the quote rows in the file at the call
Call(R) == [i |-> R.i, rows |-> Len(R.quotes)]

\* the for loop of run moves past event i: to the next event, or out of the
\* loop to `return true`
Advance(R) ==
  IF R.i = Len(R.events) THEN [R EXCEPT !.pc = "returned", !.ret = TRUE]
  ELSE [R EXCEPT !.i = @ + 1]

InitReplay ==
  /\ profile = "replay"
  /\ bids = LadderOf(profile)
  /\ asks = LadderOf(profile)
  /\ node = [h \in {} |-> 0]
  /\ id_index = [i \in {} |-> 0]
  /\ replayer \in {NewReplayer(evs, opt) : evs \in EventLists, opt \in OptionsValues}

\* run, events.empty(): return false
RunEmpty ==
  /\ replayer.pc = "run"
  /\ replayer.events = <<>>
  /\ replayer' = [replayer EXCEPT !.pc = "returned", !.ret = FALSE]
  /\ UNCHANGED <<bids, asks, node, id_index, profile>>

\* run, the time bases: start_ns, next_sample_ns, last_ts_ns; the for loop
\* stands at the first event
RunBegin ==
  /\ replayer.pc = "run"
  /\ replayer.events # <<>>
  /\ \E start_ns \in {replayer.events[1].ts_ns} :
       replayer' = [replayer EXCEPT
                      !.pc = "for", !.i = 1,
                      !.next_sample_ns = align_up(start_ns, replayer.opt.cadence_ns),
                      !.last_ts_ns = start_ns]
  /\ UNCHANGED <<bids, asks, node, id_index, profile>>

\* one iteration of while (e.ts_ns >= next_sample_ns): a quote row at
\* next_sample_ns (its prices and sizes, read from level_book_, are not
\* recorded), then next_sample_ns += opt.cadence_ns
WriteQuoteRow ==
  /\ replayer.pc = "for"
  /\ replayer.events[replayer.i].ts_ns >= replayer.next_sample_ns
  /\ Len(replayer.quotes) < MaxRows
  /\ replayer' = [replayer EXCEPT
                    !.quotes = Append(@, replayer.next_sample_ns),
                    !.next_sample_ns = @ + replayer.opt.cadence_ns]
  /\ UNCHANGED <<bids, asks, node, id_index, profile>>

\* the while loop is left and event i is a Book event: apply_book_event(e)
ApplyBookEvent ==
  /\ replayer.pc = "for"
  /\ replayer.events[replayer.i].ts_ns < replayer.next_sample_ns
  /\ replayer.events[replayer.i].type = "Book"
  /\ \E l \in FeedLevels(replayer) :
       \E x \in {apply_book_event(replayer, Book, l)} :
         /\ x.book.fits
         /\ \E c \in {Canon(x.book)} :
              /\ bids' = c.bids
              /\ asks' = c.asks
              /\ node' = c.node
              /\ id_index' = c.id_index
         /\ replayer' = Advance([x.rp EXCEPT
                                   !.last_ts_ns = replayer.events[replayer.i].ts_ns,
                                   !.applied = Append(@, Call(replayer))])
  /\ UNCHANGED profile

\* the while loop is left and event i is a Trade event: emit_trade_taq(e)
\* writes a trade row
EmitTradeTaq ==
  /\ replayer.pc = "for"
  /\ replayer.events[replayer.i].ts_ns < replayer.next_sample_ns
  /\ replayer.events[replayer.i].type = "Trade"
  /\ replayer' = Advance([replayer EXCEPT
                            !.last_ts_ns = replayer.events[replayer.i].ts_ns,
                            !.trades = Append(@, replayer.events[replayer.i].ts_ns),
                            !.applied = Append(@, Call(replayer))])
  /\ UNCHANGED <<bids, asks, node, id_index, profile>>

NextReplay == RunEmpty \/ RunBegin \/ WriteQuoteRow \/ ApplyBookEvent \/ EmitTradeTaq

\* run is one sequential call: while a step of it is possible, it is taken
SpecReplay == InitReplay /\ [][NextReplay]_vars /\ WF_vars(NextReplay)

\* the quantity resting in the engine at (s, px): the nodes linked there
LevelQty(B, s, px) ==
  SeqSum([k \in 1..Len(FifoAt(B.node, SameOf(B, s), px)) |->
            B.node[FifoAt(B.node, SameOf(B, s), px)[k]].qty])

(* ------------------------------- C38 ---------------------------------- *)
\* the feed's latest total for level (s, px) as level_size_ records it; a
\* level the feed last set to a non-positive size has no record
FeedTotal(R, s, px) ==
  IF level_key(s, px) \in DOMAIN R.level_size_
    THEN R.level_size_[level_key(s, px)] ELSE 0

\* C38: the Replayer keeps the engine in step with the feed.  After every
\* Book event of integral size at an integral price that does not cross
\* the feed's other side, applied through apply_book_event, the quantity
\* resting in the engine at every (side, price) is the feed's latest total
\* for that level, and nothing rests at a level the feed last set to a size
\* of zero or less, also after a level has grown and is then shrunk or
\* removed.
C38_EngineInStep ==
  \A s \in Sides, px \in Ticks : LevelQty(Book, s, px) = FeedTotal(replayer, s, px)

(* ------------------------------- C39 ---------------------------------- *)
\* ts aligned up to the cadence c: the least multiple of c not below ts
\* (ts itself where c gives no grid)
AlignedUp(ts, c) ==
  IF c <= 0 THEN ts ELSE CHOOSE t \in ts..(ts + c - 1) : t % c = 0

\* the quote rows of R lie on the grid: strictly increasing, cadence_ns
\* apart, from the first event's timestamp aligned up
OnGrid(R) ==
  /\ R.quotes # <<>> => R.quotes[1] = AlignedUp(R.events[1].ts_ns, R.opt.cadence_ns)
  /\ \A k \in 2..Len(R.quotes) :
       /\ R.quotes[k] > R.quotes[k - 1]
       /\ R.quotes[k] = R.quotes[k - 1] + R.opt.cadence_ns

\* the events were applied once each in list order, as far as run has come
InListOrder(R) ==
  /\ \A k \in 1..Len(R.applied) : R.applied[k].i = k
  /\ R.pc = "returned" /\ R.ret => Len(R.applied) = Len(R.events)

\* every quote row with sample time t was in the file when an event with
\* ts_ns >= t was applied
SampledBefore(R) ==
  \A k \in 1..Len(R.applied), q \in 1..Len(R.quotes) :
    R.events[R.applied[k].i].ts_ns >= R.quotes[q] => q <= R.applied[k].rows

\* run on an empty list returned false and wrote nothing; on any other list
\* it returns true
Returns(R) ==
  R.pc = "returned" =>
    IF R.events = <<>> THEN ~R.ret /\ R.quotes = <<>> /\ R.applied = <<>>
    ELSE R.ret

\* what run has done so far is as C39 says
AsSampled(R) == OnGrid(R) /\ InListOrder(R) /\ SampledBefore(R) /\ Returns(R)

\* C39: Replayer::run terminates and samples on a fixed grid.  For every
\* finite event list sorted by ts_ns and every Options value, run returns,
\* having applied every event exactly once in list order; its quote rows
\* have strictly increasing sample times cadence_ns apart, the first at the
\* first event's timestamp aligned up to the cadence; a row with sample time
\* t is written before any event with ts_ns >= t is applied; and on an empty
\* list run returns false without writing a row.
C39_RunOnGrid == [](AsSampled(replayer)) /\ <>(replayer.pc = "returned")

\* the calls of run the replay driver makes: a positive cadence (its command
\* line replaces any other by the default) and timestamps from the epoch on
DriverCall(R) ==
  /\ R.opt.cadence_ns > 0
  /\ \A k \in 1..Len(R.events) : R.events[k].ts_ns >= 0

\* C39 for the calls of the replay driver: with a positive cadence over
\* timestamps that are not negative, run returns and has sampled as C39 says
C39_DriverRunOnGrid ==
  DriverCall(replayer) =>
    [](AsSampled(replayer)) /\ <>(replayer.pc = "returned")

====
